---- MODULE Spec2Model ----
(***************************************************************************)
(* Session state manager of ats-boost: the four Dashboard revisions kept   *)
(* in the repository                                                       *)
(*   p002 = unnamed/part_002, p003 = unnamed/part_003,                     *)
(*   p004 = unnamed/part_004, dj   = src/components/Dashboard/Dashboard.jsx*)
(* Each React state hook is a variable, each handler an action, each       *)
(* awaited file read or timer an item of the bag "pending" that a later    *)
(* action resolves.  Effects (useEffect) run inside the action whose state *)
(* change triggers them.                                                   *)
(***************************************************************************)
EXTENDS Bags, FiniteSets, Integers, Naturals, Sequences, TLC

VARIABLES variant, mounted, resumeData, jobDescriptionData, currentView,
          history, loading, error, success, analysisResult, store, pending,
          now, appended, thrown, budget, storeFails, optimizedContent,
          generating, proxy, hook, notice, ai

vars == <<variant, mounted, resumeData, jobDescriptionData, currentView,
          history, loading, error, success, analysisResult, store, pending,
          now, appended, thrown, budget, storeFails, optimizedContent,
          generating, proxy, hook, notice, ai>>

\* ------------------------------------------------------------------ bounds
\* largest value the wall clock (Date.now()) takes in the model
MaxClock == 1
\* largest number of analyses (completed plus in flight) in Spec
MaxRuns == 2
\* largest number of file reads and analysis timers in flight at once
MaxPending == 2
\* number of entries appended beyond the capacity in SpecLedger
Overflow == 5
\* largest number of words of a resume or job-description text in SpecScore
MaxWords == 2
\* largest number of requests the optimize-resume proxy serves
MaxRequests == 2
\* largest number of renders of the Analysis view of part_005
MaxRenders == 3

\* ------------------------------------------------------------- JS helpers
\* null of an object-valued hook, null of a message-valued hook
Null == [null |-> TRUE]
NoMsg == "null"

Min(a, b) == IF a < b THEN a ELSE b
Max(a, b) == IF a > b THEN a ELSE b

\* Array.prototype.slice(0, n)
Slice(s, n) == SubSeq(s, 1, Min(n, Len(s)))

\* [...new Set(s)] : first occurrences, in order
RECURSIVE Dedup(_)
Dedup(s) ==
  IF s = <<>> THEN <<>>
  ELSE LET r == Dedup(SubSeq(s, 1, Len(s) - 1))
           x == s[Len(s)]
       IN IF \E i \in 1..Len(r) : r[i] = x THEN r ELSE Append(r, x)

Range(s) == {s[i] : i \in 1..Len(s)}

\* Math.round of the non-negative rational num/den (den > 0): floor(x + 0.5)
Round(num, den) == (2 * num + den) \div (2 * den)

\* ------------------------------------------------------------------ texts
\* A text is a sequence of words separated by single blanks.
\* String.prototype.toLowerCase on the words of the vocabulary
toLowerCase(w) == IF w = "Python" THEN "python"
                  ELSE IF w = "AWS" THEN "aws"
                  ELSE IF w = "PROFESSIONAL" THEN "professional"
                  ELSE IF w = "SUMMARY" THEN "summary"
                  ELSE IF w = "Experienced" THEN "experienced"
                  ELSE IF w = "Looking" THEN "looking"
                  ELSE IF w = "Kubernetes" THEN "kubernetes"
                  ELSE w

\* text.toLowerCase().match(/\w+/g) || []
RECURSIVE WordsOf(_)
WordsOf(text) ==
  IF text = <<>> THEN <<>>
  ELSE <<toLowerCase(Head(text))>> \o WordsOf(Tail(text))

\* text.toLowerCase().match(/[a-zA-Z]{3,}/g) || []
AlphaWords3(text) == SelectSeq(WordsOf(text), LAMBDA w : Len(w) >= 3)

\* text.trim().length
RECURSIVE TextLen(_)
TextLen(text) ==
  IF text = <<>> THEN 0
  ELSE Len(Head(text)) + (IF Len(text) > 1 THEN 1 ELSE 0) + TextLen(Tail(text))

\* ------------------------------------------------------------------ inputs
\* files the user can pick; typeOk is Upload's MIME-type test
ResumeFiles ==
  { [name |-> "cv.txt", ext |-> "txt", typeOk |-> TRUE,
     text |-> <<"Python", "skills", "experience">>],
    [name |-> "empty.txt", ext |-> "txt", typeOk |-> TRUE, text |-> <<>>],
    [name |-> "cv.exe", ext |-> "exe", typeOk |-> FALSE, text |-> <<"x">>] }

JDFiles ==
  { [name |-> "jd.txt", ext |-> "txt", typeOk |-> TRUE,
     text |-> <<"python", "kubernetes", "and", "experience">>] }

\* texts the user can paste as a job description
JDTexts == { <<"skills", "AWS">>, <<>> }

\* -------------------------------------------------------- persistent store
STORAGE_KEYS == [resume |-> "ats-resume", jd |-> "ats-jd", history |-> "ats-history"]
\* the key of the score history kept by the Analysis view of part_005
persistKey == "ats_analysis_history_v1"
Keys == {STORAGE_KEYS.resume, STORAGE_KEYS.jd, STORAGE_KEYS.history, persistKey}

\* getItem of a missing key
Absent == [absent |-> TRUE]
\* JSON.stringify / JSON.parse of plain data
Stringify(v) == [json |-> v]
Parse(s) == s.json
\* a stored string that JSON.parse rejects
Corrupt == [corrupt |-> TRUE]
\* getItem returned a string and JSON.parse accepts it
Readable(s) == s # Absent /\ s # Corrupt

\* a write or a removal that throws (quota exceeded, storage denied)
\* leaves the store as it was
setItem(st, k, v) == IF storeFails THEN st ELSE [st EXCEPT ![k] = v]
removeItem(st, k) == IF storeFails THEN st ELSE [st EXCEPT ![k] = Absent]

\* the optimize-resume function before any request: no request at hand,
\* nothing sent
ProxyIdle ==
  [phase |-> "idle", method |-> "", body |-> "", apiKey |-> FALSE,
   statuses |-> <<>>, called |-> FALSE, cause |-> "", log |-> <<>>]

\* usePersistentHistory before the first render: no render yet, the append
\* effect has seen no dependency, no state update awaits a render
HookFresh == [renders |-> 0, seen |-> 0, stale |-> FALSE]

\* aiService before any call: nothing called, nothing returned
AiIdle ==
  [phase |-> "idle", fn |-> "", resumeText |-> "", jobDescription |-> "",
   companyName |-> "", apiKey |-> "", called |-> FALSE, cause |-> "",
   outcome |-> "", success |-> FALSE, error |-> NoMsg, payload |-> NoMsg,
   log |-> <<>>]

\* the feedback effect of Dashboard.jsx before any notice: no timer runs
\* (notice.fresh: the running timer was started by the notice set last)
NoticeIdle == [timer |-> FALSE, fresh |-> TRUE]

\* ------------------------------------------------------------------ state
Variants == {"p002", "p003", "p004", "dj"}

\* useState initial values; nothing persisted yet
Init ==
  /\ variant \in Variants
  /\ mounted = FALSE
  /\ resumeData = Null
  /\ jobDescriptionData =
       IF variant = "dj" THEN [mode |-> "text", text |-> <<>>, fileName |-> ""]
       ELSE Null
  /\ currentView = "upload"
  /\ history = <<>>
  /\ loading = FALSE
  /\ error = NoMsg
  /\ success = NoMsg
  /\ analysisResult = Null
  /\ store = [k \in Keys |-> Absent]
  /\ pending = EmptyBag
  /\ now = 0
  /\ appended = <<>>
  /\ thrown = FALSE
  /\ budget = MaxRuns
  /\ storeFails = FALSE
  /\ notice = NoticeIdle
  /\ ai = AiIdle
  /\ hook = HookFresh
  /\ proxy = ProxyIdle
  /\ optimizedContent = <<>> /\ generating = FALSE

\* one item more / one item less in flight
Spawn(item) == pending (+) SetToBag({item})
Settle(item) == pending (-) SetToBag({item})
InFlight(kind) == {p \in BagToSet(pending) : p.kind = kind}
\* number of analyses in flight
AnalysesInFlight ==
  BagCardinality([p \in InFlight("analysis") |-> CopiesIn(p, pending)])
CanSpawn == BagCardinality(pending) < MaxPending
\* analyses the model still lets start
CanRun == budget > 0

\* Date.now() advances. The clock is read only for the id and date of a
\* history entry, and of these only whether two entries carry the same or
\* a later value is observed: the clock is counted from the first entry
\* and runs at most one step ahead of the newest one.
Tick ==
  /\ now < MaxClock
  /\ appended # <<>> /\ now = appended[1].id
  /\ now' = now + 1
  /\ UNCHANGED <<variant, notice, ai, hook, proxy, storeFails, optimizedContent, generating, mounted, resumeData, jobDescriptionData, currentView,
                 history, loading, error, success, analysisResult, store,
                 pending, appended,
                 thrown, budget>>

\* ================================================================== p003
\* save-history effect, run when history changed
p003_saveHistoryEffect(st, old, new) ==
  IF new # old THEN setItem(st, STORAGE_KEYS.history, Stringify(new)) ELSE st

\* mount: restore effect, then save effect with the initial history, then
\* the save effect again when the restored history differs
p003_Mount ==
  /\ variant = "p003" /\ ~mounted
  /\ mounted' = TRUE
  /\ LET savedHistory == store[STORAGE_KEYS.history]
         restored == IF Readable(savedHistory) THEN Parse(savedHistory)
                     ELSE history
         st1 == setItem(store, STORAGE_KEYS.history, Stringify(history))
     IN /\ history' = restored
        /\ appended' = restored
        /\ store' = p003_saveHistoryEffect(st1, history, restored)
  /\ UNCHANGED <<variant, notice, ai, hook, proxy, storeFails, optimizedContent, generating, resumeData, jobDescriptionData, currentView, loading,
                 error, success, analysisResult, pending, now,
                 thrown, budget>>

\* the Upload card and the action buttons are rendered
p003_UploadShown == ~(currentView = "analysis" /\ analysisResult # Null)

\* Upload rejects a pick whose type is not allowed: invalidFeedback = setError
p003_invalidFeedback ==
  /\ variant = "p003" /\ mounted /\ p003_UploadShown
  /\ \E f \in ResumeFiles \cup JDFiles : ~f.typeOk
  /\ error' = "Unsupported format"
  /\ UNCHANGED <<variant, notice, ai, hook, proxy, storeFails, optimizedContent, generating, mounted, resumeData, jobDescriptionData, currentView,
                 history, loading, success, analysisResult, store, pending, now,
                 appended,
                 thrown, budget>>

\* handleResumeUpload up to the await
p003_handleResumeUpload ==
  /\ variant = "p003" /\ mounted /\ p003_UploadShown /\ CanSpawn
  /\ \E f \in ResumeFiles :
       /\ f.typeOk
       /\ pending' = Spawn([kind |-> "readResume", file |-> f])
  /\ error' = NoMsg
  /\ loading' = TRUE
  /\ UNCHANGED <<variant, notice, ai, hook, proxy, storeFails, optimizedContent, generating, mounted, resumeData, jobDescriptionData, currentView,
                 history, success, analysisResult, store, now, appended,
                 thrown, budget>>

\* readFile resolved: the rest of the try block, then finally
p003_resumeRead ==
  /\ variant = "p003"
  /\ \E p \in InFlight("readResume") :
       LET newData == [fileName |-> p.file.name, text |-> p.file.text]
       IN /\ pending' = Settle(p)
          /\ resumeData' = newData
          /\ store' = setItem(store, STORAGE_KEYS.resume, Stringify(newData))
  /\ loading' = FALSE
  /\ UNCHANGED <<variant, notice, ai, hook, proxy, storeFails, optimizedContent, generating, mounted, jobDescriptionData, currentView, history,
                 error, success, analysisResult, now, appended,
                 thrown, budget>>

\* readFile rejected: catch, then finally
p003_resumeReadFailed ==
  /\ variant = "p003"
  /\ \E p \in InFlight("readResume") : pending' = Settle(p)
  /\ error' = "Failed to read resume file"
  /\ loading' = FALSE
  /\ UNCHANGED <<variant, notice, ai, hook, proxy, storeFails, optimizedContent, generating, mounted, resumeData, jobDescriptionData, currentView,
                 history, success, analysisResult, store, now, appended,
                 thrown, budget>>

\* handleJobDescriptionUpload with a File, up to the await
p003_handleJobDescriptionUpload ==
  /\ variant = "p003" /\ mounted /\ p003_UploadShown /\ CanSpawn
  /\ \E f \in JDFiles :
       /\ f.typeOk
       /\ pending' = Spawn([kind |-> "readJD", file |-> f])
  /\ error' = NoMsg
  /\ loading' = TRUE
  /\ UNCHANGED <<variant, notice, ai, hook, proxy, storeFails, optimizedContent, generating, mounted, resumeData, jobDescriptionData, currentView,
                 history, success, analysisResult, store, now, appended,
                 thrown, budget>>

p003_jdRead ==
  /\ variant = "p003"
  /\ \E p \in InFlight("readJD") :
       LET newData == [fileName |-> p.file.name, text |-> p.file.text]
       IN /\ pending' = Settle(p)
          /\ jobDescriptionData' = newData
          /\ store' = setItem(store, STORAGE_KEYS.jd, Stringify(newData))
  /\ loading' = FALSE
  /\ UNCHANGED <<variant, notice, ai, hook, proxy, storeFails, optimizedContent, generating, mounted, resumeData, currentView, history, error,
                 success, analysisResult, now, appended,
                 thrown, budget>>

p003_jdReadFailed ==
  /\ variant = "p003"
  /\ \E p \in InFlight("readJD") : pending' = Settle(p)
  /\ error' = "Failed to process job description"
  /\ loading' = FALSE
  /\ UNCHANGED <<variant, notice, ai, hook, proxy, storeFails, optimizedContent, generating, mounted, resumeData, jobDescriptionData, currentView,
                 history, success, analysisResult, store, now, appended,
                 thrown, budget>>

\* handleJobDescriptionUpload with a string: no await, runs to the end
p003_handleJobDescriptionText ==
  /\ variant = "p003" /\ mounted /\ p003_UploadShown
  /\ \E t \in JDTexts :
       LET newData == [fileName |-> "Job Description (Text Input)", text |-> t]
       IN /\ TextLen(t) > 0
          /\ jobDescriptionData' = newData
          /\ store' = setItem(store, STORAGE_KEYS.jd, Stringify(newData))
  /\ error' = NoMsg
  /\ loading' = FALSE
  /\ UNCHANGED <<variant, notice, ai, hook, proxy, storeFails, optimizedContent, generating, mounted, resumeData, currentView, history, success,
                 analysisResult, pending, now, appended,
                 thrown, budget>>

\* variant of p003_coverage that takes a job description without words as
\* fully covered
p003_coverage_emptyIsFull(common, total) ==
  IF total = 0 THEN 100 ELSE Round(100 * common, total)

\* variant of p003_coverage that measures the share of the words the resume
\* lacks
p003_coverage_ofMissing(common, total) ==
  IF total = 0 THEN 0 ELSE Round(100 * (total - common), total)

\* Math.round((commonWords.length / jdWords.length) * 100) || 0 : the
\* division 0/0 is NaN, which "|| 0" turns into 0
p003_coverage(common, total) ==
  IF total = 0 THEN 0 ELSE Round(100 * common, total)

\* the scoring heuristic of p003
mockAnalysisEngine(resumeText, jdText) ==
  LET jdWords == WordsOf(jdText)
      resumeWords == Range(WordsOf(resumeText))
      commonWords == SelectSeq(jdWords, LAMBDA w : w \in resumeWords)
      coverage == p003_coverage(Len(commonWords), Len(jdWords))
      score == Min(coverage, 100)
  IN [score |-> score,
      coverage |-> coverage,
      matchedKeywords |->
        Dedup(Slice(SelectSeq(jdWords,
                      LAMBDA w : w \in resumeWords /\ Len(w) > 3), 10)),
      missingKeywords |->
        Slice(SelectSeq(jdWords,
                LAMBDA w : w \notin resumeWords /\ Len(w) > 4), 8),
      insights |->
        <<IF score < 50 THEN "Consider adding more relevant keywords"
          ELSE "Good keyword match!",
          "Tailor your resume">>,
      requiredKeywords |-> <<"experience", "skills", "education">>,
      optionalKeywords |-> <<"leadership", "communication", "teamwork">>,
      sectionScores |-> [skills |-> Min(score + 10, 100),
                         experience |-> Max(score - 5, 0),
                         education |-> score],
      experienceMatch |-> IF score > 60 THEN "Strong"
                          ELSE IF score > 40 THEN "Moderate" ELSE "Weak"]

\* useMemo canAnalyze of p003 (the Analyze button is disabled without it)
p003_canAnalyze == ~loading /\ resumeData # Null /\ jobDescriptionData # Null

\* handleAnalyze up to setTimeout; the timer callback keeps the documents of
\* the render that started it
p003_handleAnalyze ==
  /\ variant = "p003" /\ mounted /\ p003_UploadShown /\ p003_canAnalyze
  /\ CanSpawn /\ CanRun
  /\ IF resumeData = Null \/ jobDescriptionData = Null
     THEN /\ error' = "Please upload both a resume and a job description"
          /\ UNCHANGED <<loading, pending>>
     ELSE /\ loading' = TRUE
          /\ error' = NoMsg
          /\ pending' = Spawn([kind |-> "analysis", resume |-> resumeData,
                               jd |-> jobDescriptionData])
  /\ budget' = budget - 1
  /\ UNCHANGED <<variant, notice, ai, hook, proxy, storeFails, optimizedContent, generating, mounted, resumeData, jobDescriptionData, currentView,
                 history, success, analysisResult, store, now, appended,
                 thrown>>

\* the history entry handleAnalyze builds
p003_newEntry(p, result) ==
  [id |-> now, date |-> now, resumeFile |-> p.resume.fileName,
   jdFile |-> p.jd.fileName, score |-> result.score,
   coverage |-> result.coverage]

\* variant of p003_append that adds the entry at the end
p003_append_atEnd(prev, newEntry) == Slice(prev \o <<newEntry>>, 10)

\* setHistory(prev => [newEntry, ...prev].slice(0, 10))
p003_append(prev, newEntry) == Slice(<<newEntry>> \o prev, 10)

\* the setTimeout callback of handleAnalyze, then the save-history effect
p003_analysisTimeout ==
  /\ variant = "p003"
  /\ \E p \in InFlight("analysis") :
       LET result == mockAnalysisEngine(p.resume.text, p.jd.text)
           newEntry == p003_newEntry(p, result)
           h == p003_append(history, newEntry)
       IN /\ pending' = Settle(p)
          /\ analysisResult' = result
          /\ history' = h
          /\ appended' = <<newEntry>> \o appended
          /\ store' = p003_saveHistoryEffect(store, history, h)
  /\ currentView' = "analysis"
  /\ loading' = FALSE
  /\ UNCHANGED <<variant, notice, ai, hook, proxy, storeFails, optimizedContent, generating, mounted, resumeData, jobDescriptionData, error,
                 success, now,
                 thrown, budget>>

\* goBackToUpload (Analysis onBack)
p003_goBackToUpload ==
  /\ variant = "p003" /\ mounted /\ ~p003_UploadShown
  /\ currentView' = "upload"
  /\ analysisResult' = Null
  /\ UNCHANGED <<variant, notice, ai, hook, proxy, storeFails, optimizedContent, generating, mounted, resumeData, jobDescriptionData, history,
                 loading, error, success, store, pending, now, appended,
                 thrown, budget>>

\* variant of p003_clearAll that forgets the job-description key
p003_clearAll_keepsJdKey ==
  /\ variant = "p003" /\ mounted /\ p003_UploadShown /\ ~loading
  /\ resumeData' = Null
  /\ jobDescriptionData' = Null
  /\ analysisResult' = Null
  /\ error' = NoMsg
  /\ currentView' = "upload"
  /\ store' = removeItem(store, STORAGE_KEYS.resume)
  /\ UNCHANGED <<variant, notice, ai, hook, proxy, storeFails, optimizedContent, generating, mounted, history, loading, success, pending, now,
                 appended, thrown, budget>>

\* clearAll (the Reset button is disabled while loading)
p003_clearAll ==
  /\ variant = "p003" /\ mounted /\ p003_UploadShown /\ ~loading
  /\ resumeData' = Null
  /\ jobDescriptionData' = Null
  /\ analysisResult' = Null
  /\ error' = NoMsg
  /\ currentView' = "upload"
  /\ store' = removeItem(removeItem(store, STORAGE_KEYS.resume), STORAGE_KEYS.jd)
  /\ UNCHANGED <<variant, notice, ai, hook, proxy, storeFails, optimizedContent, generating, mounted, history, loading, success, pending, now,
                 appended,
                 thrown, budget>>

p003_Next ==
  \/ p003_Mount
  \/ p003_invalidFeedback
  \/ p003_handleResumeUpload
  \/ p003_resumeRead
  \/ p003_resumeReadFailed
  \/ p003_handleJobDescriptionUpload
  \/ p003_jdRead
  \/ p003_jdReadFailed
  \/ p003_handleJobDescriptionText
  \/ p003_handleAnalyze
  \/ p003_analysisTimeout
  \/ p003_goBackToUpload
  \/ p003_clearAll

\* ================================================================== p004
\* the three persist effects of p004; history lives in localStorage, the two
\* documents in sessionStorage (the key names are distinct, one map holds both)
p004_persistEffects(st, oldH, newH, oldR, newR, oldJ, newJ) ==
  LET s1 == IF newH # oldH
            THEN setItem(st, STORAGE_KEYS.history, Stringify(newH)) ELSE st
      s2 == IF newR # oldR
            THEN (IF newR # Null
                  THEN setItem(s1, STORAGE_KEYS.resume, Stringify(newR))
                  ELSE removeItem(s1, STORAGE_KEYS.resume))
            ELSE s1
  IN IF newJ # oldJ
     THEN (IF newJ # Null
           THEN setItem(s2, STORAGE_KEYS.jd, Stringify(newJ))
           ELSE removeItem(s2, STORAGE_KEYS.jd))
     ELSE s2

\* mount: restore effect, the persist effects with the initial state, then
\* the persist effects again for what the restore changed
p004_Mount ==
  /\ variant = "p004" /\ ~mounted
  /\ mounted' = TRUE
  /\ LET savedHistory == store[STORAGE_KEYS.history]
         savedResume == store[STORAGE_KEYS.resume]
         savedJd == store[STORAGE_KEYS.jd]
         \* one try block: the first JSON.parse that throws ends the restore
         okH == savedHistory # Corrupt
         okR == okH /\ savedResume # Corrupt
         h == IF Readable(savedHistory) THEN Parse(savedHistory) ELSE history
         r == IF okH /\ Readable(savedResume)
              THEN [fileName |-> Parse(savedResume).fileName,
                    text |-> Parse(savedResume).text]
              ELSE resumeData
         j == IF okR /\ Readable(savedJd)
              THEN [fileName |-> Parse(savedJd).fileName,
                    text |-> Parse(savedJd).text]
              ELSE jobDescriptionData
         st1 == removeItem(removeItem(
                  setItem(store, STORAGE_KEYS.history, Stringify(history)),
                  STORAGE_KEYS.resume), STORAGE_KEYS.jd)
     IN /\ history' = h
        /\ appended' = h
        /\ resumeData' = r
        /\ jobDescriptionData' = j
        /\ store' = p004_persistEffects(st1, history, h, resumeData, r,
                                        jobDescriptionData, j)
  /\ UNCHANGED <<variant, notice, ai, hook, proxy, storeFails, optimizedContent, generating, currentView, loading, error, success, analysisResult,
                 pending, now,
                 thrown, budget>>

\* useMemo canAnalyze of p004: both texts non-empty
p004_canAnalyze ==
  /\ resumeData # Null /\ resumeData.text # <<>>
  /\ jobDescriptionData # Null /\ jobDescriptionData.text # <<>>

\* validateText
validateText(text) == TextLen(text) > 10

allowed == {"pdf", "doc", "docx", "txt", "md"}

\* Upload rejects a pick whose type is not allowed: invalidFeedback = setError
p004_invalidFeedback ==
  /\ variant = "p004" /\ mounted /\ currentView = "upload"
  /\ \E f \in ResumeFiles \cup JDFiles : ~f.typeOk
  /\ error' = "Unsupported format"
  /\ UNCHANGED <<variant, notice, ai, hook, proxy, storeFails, optimizedContent, generating, mounted, resumeData, jobDescriptionData, currentView,
                 history, loading, success, analysisResult, store, pending, now,
                 appended,
                 thrown, budget>>

\* handleResumeUpload up to the await
p004_handleResumeUpload ==
  /\ variant = "p004" /\ mounted /\ currentView = "upload" /\ CanSpawn
  /\ \E f \in ResumeFiles :
       /\ f.typeOk
       /\ IF f.ext \notin allowed
          THEN /\ error' = "Unsupported resume format"
               /\ UNCHANGED <<loading, pending>>
          ELSE /\ error' = NoMsg
               /\ loading' = TRUE
               /\ pending' = Spawn([kind |-> "readResume", file |-> f])
  /\ UNCHANGED <<variant, notice, ai, hook, proxy, storeFails, optimizedContent, generating, mounted, resumeData, jobDescriptionData, currentView,
                 history, success, analysisResult, store, now, appended,
                 thrown, budget>>

\* readFile resolved: validateText, setResumeData or catch, finally, effects
p004_resumeRead ==
  /\ variant = "p004"
  /\ \E p \in InFlight("readResume") :
       LET r == [fileName |-> p.file.name, text |-> p.file.text]
       IN /\ pending' = Settle(p)
          /\ IF validateText(p.file.text)
             THEN /\ resumeData' = r
                  /\ store' = p004_persistEffects(store, history, history,
                                resumeData, r, jobDescriptionData,
                                jobDescriptionData)
                  /\ UNCHANGED error
             ELSE /\ error' = "Resume appears empty or unreadable."
                  /\ UNCHANGED <<resumeData, store>>
  /\ loading' = FALSE
  /\ UNCHANGED <<variant, notice, ai, hook, proxy, storeFails, optimizedContent, generating, mounted, jobDescriptionData, currentView, history,
                 success, analysisResult, now, appended,
                 thrown, budget>>

\* variant of p004_resumeReadFailed without the finally block
p004_resumeReadFailed_noFinally ==
  /\ variant = "p004"
  /\ \E p \in InFlight("readResume") : pending' = Settle(p)
  /\ error' = "Failed to read resume."
  /\ UNCHANGED <<variant, notice, ai, hook, proxy, storeFails, optimizedContent, generating, mounted, resumeData, jobDescriptionData, currentView,
                 history, loading, success, analysisResult, store, now,
                 appended, thrown, budget>>

\* readFile rejected: catch, finally
p004_resumeReadFailed ==
  /\ variant = "p004"
  /\ \E p \in InFlight("readResume") : pending' = Settle(p)
  /\ error' = "Failed to read resume."
  /\ loading' = FALSE
  /\ UNCHANGED <<variant, notice, ai, hook, proxy, storeFails, optimizedContent, generating, mounted, resumeData, jobDescriptionData, currentView,
                 history, success, analysisResult, store, now, appended,
                 thrown, budget>>

p004_handleJobDescriptionUpload ==
  /\ variant = "p004" /\ mounted /\ currentView = "upload" /\ CanSpawn
  /\ \E f \in JDFiles :
       /\ f.typeOk
       /\ IF f.ext \notin allowed
          THEN /\ error' = "Unsupported JD format"
               /\ UNCHANGED <<loading, pending>>
          ELSE /\ error' = NoMsg
               /\ loading' = TRUE
               /\ pending' = Spawn([kind |-> "readJD", file |-> f])
  /\ UNCHANGED <<variant, notice, ai, hook, proxy, storeFails, optimizedContent, generating, mounted, resumeData, jobDescriptionData, currentView,
                 history, success, analysisResult, store, now, appended,
                 thrown, budget>>

p004_jdRead ==
  /\ variant = "p004"
  /\ \E p \in InFlight("readJD") :
       LET j == [fileName |-> p.file.name, text |-> p.file.text]
       IN /\ pending' = Settle(p)
          /\ IF validateText(p.file.text)
             THEN /\ jobDescriptionData' = j
                  /\ store' = p004_persistEffects(store, history, history,
                                resumeData, resumeData, jobDescriptionData, j)
                  /\ UNCHANGED error
             ELSE /\ error' = "Job description appears empty or unreadable."
                  /\ UNCHANGED <<jobDescriptionData, store>>
  /\ loading' = FALSE
  /\ UNCHANGED <<variant, notice, ai, hook, proxy, storeFails, optimizedContent, generating, mounted, resumeData, currentView, history, success,
                 analysisResult, now, appended,
                 thrown, budget>>

p004_jdReadFailed ==
  /\ variant = "p004"
  /\ \E p \in InFlight("readJD") : pending' = Settle(p)
  /\ error' = "Failed to read job description."
  /\ loading' = FALSE
  /\ UNCHANGED <<variant, notice, ai, hook, proxy, storeFails, optimizedContent, generating, mounted, resumeData, jobDescriptionData, currentView,
                 history, success, analysisResult, store, now, appended,
                 thrown, budget>>

\* the scoring of runAnalysis
p004_score(resumeText, jdText) ==
  LET jdWords == Dedup(AlphaWords3(jdText))
      resumeWords == Range(AlphaWords3(resumeText))
      matched == SelectSeq(jdWords, LAMBDA w : w \in resumeWords)
      coverage == Round(100 * Len(matched), Max(1, Len(jdWords)))
      \* Math.round(60 + coverage * 0.4)
      score == Min(100, (605 + 4 * coverage) \div 10)
  IN [score |-> score,
      coverage |-> coverage,
      matchedKeywords |-> Slice(matched, 100),
      missingKeywords |->
        Slice(SelectSeq(jdWords, LAMBDA w : w \notin resumeWords), 100),
      insights |->
        <<IF coverage < 50 THEN "Low keyword coverage." ELSE "Good keyword coverage.",
          IF score < 75 THEN "Consider tailoring achievements with metrics."
          ELSE "Strong alignment overall.">>,
      timestamp |-> now]

\* variant of p004_newEntry that records the coverage as the score
p004_newEntry_scoreFromCoverage(result) ==
  [id |-> result.timestamp, resumeFile |-> resumeData.fileName,
   jdFile |-> jobDescriptionData.fileName, score |-> result.coverage,
   coverage |-> result.coverage, date |-> result.timestamp]

\* the history entry runAnalysis builds
p004_newEntry(result) ==
  [id |-> result.timestamp, resumeFile |-> resumeData.fileName,
   jdFile |-> jobDescriptionData.fileName, score |-> result.score,
   coverage |-> result.coverage, date |-> result.timestamp]

\* variant of p004_append without the slice
p004_append_uncapped(prev, newEntry) == <<newEntry>> \o prev

\* setHistory(prev => [newEntry, ...prev].slice(0, 50))
p004_append(prev, newEntry) == Slice(<<newEntry>> \o prev, 50)

\* runAnalysis (no await inside: one step), then the persist effects;
\* the Analyze button is disabled without canAnalyze or while loading
p004_runAnalysis ==
  /\ variant = "p004" /\ mounted /\ ~loading /\ CanRun
  /\ IF ~p004_canAnalyze
     THEN UNCHANGED <<error, loading, currentView, analysisResult, history,
                      appended, store>>
     ELSE LET result == p004_score(resumeData.text, jobDescriptionData.text)
              newEntry == p004_newEntry(result)
              h == p004_append(history, newEntry)
          IN /\ error' = NoMsg
             /\ loading' = FALSE
             /\ currentView' = "analysis"
             /\ analysisResult' = result
             /\ history' = h
             /\ appended' = <<newEntry>> \o appended
             /\ store' = p004_persistEffects(store, history, h, resumeData,
                           resumeData, jobDescriptionData, jobDescriptionData)
  /\ p004_canAnalyze
  /\ budget' = budget - 1
  /\ UNCHANGED <<variant, notice, ai, hook, proxy, storeFails, optimizedContent, generating, mounted, resumeData, jobDescriptionData, success,
                 pending, now,
                 thrown>>

\* variant of p004_clearAll that also empties the history
p004_clearAll_clearsHistory ==
  /\ variant = "p004" /\ mounted /\ ~loading
  /\ resumeData' = Null
  /\ jobDescriptionData' = Null
  /\ analysisResult' = Null
  /\ error' = NoMsg
  /\ currentView' = "upload"
  /\ history' = <<>>
  /\ store' = p004_persistEffects(
                removeItem(removeItem(store, STORAGE_KEYS.resume), STORAGE_KEYS.jd),
                history, <<>>, resumeData, Null, jobDescriptionData, Null)
  /\ UNCHANGED <<variant, notice, ai, hook, proxy, storeFails, optimizedContent, generating, mounted, loading, success, pending, now, appended,
                 thrown, budget>>

\* clearAll (the Reset button is disabled while loading), then the effects
p004_clearAll ==
  /\ variant = "p004" /\ mounted /\ ~loading
  /\ resumeData' = Null
  /\ jobDescriptionData' = Null
  /\ analysisResult' = Null
  /\ error' = NoMsg
  \* removeItem is called unguarded: when it throws, the handler ends
  \* before setCurrentView and the four updates above are still applied
  /\ currentView' = IF storeFails THEN currentView ELSE "upload"
  /\ thrown' = (thrown \/ storeFails)
  /\ store' = p004_persistEffects(
                removeItem(removeItem(store, STORAGE_KEYS.resume), STORAGE_KEYS.jd),
                history, history, resumeData, Null, jobDescriptionData, Null)
  /\ UNCHANGED <<variant, notice, ai, hook, proxy, storeFails, optimizedContent, generating, mounted, history, loading, success,
                 pending, now, appended, budget>>

p004_Next ==
  \/ p004_Mount
  \/ p004_invalidFeedback
  \/ p004_handleResumeUpload
  \/ p004_resumeRead
  \/ p004_resumeReadFailed
  \/ p004_handleJobDescriptionUpload
  \/ p004_jdRead
  \/ p004_jdReadFailed
  \/ p004_runAnalysis
  \/ p004_clearAll

\* ==================================================================== dj
\* the three persist effects of Dashboard.jsx (documents only when truthy)
dj_persistEffects(st, oldH, newH, oldR, newR, oldJ, newJ) ==
  LET s1 == IF newH # oldH
            THEN setItem(st, STORAGE_KEYS.history, Stringify(newH)) ELSE st
      s2 == IF newR # oldR /\ newR # Null
            THEN setItem(s1, STORAGE_KEYS.resume, Stringify(newR)) ELSE s1
  IN IF newJ # oldJ /\ newJ # Null
     THEN setItem(s2, STORAGE_KEYS.jd, Stringify(newJ)) ELSE s2

\* the persist effects of Dashboard.jsx call setItem unguarded: one of them
\* throws when it writes to a store that rejects the write
dj_effectsThrow(oldH, newH, oldR, newR, oldJ, newJ) ==
  /\ storeFails
  /\ \/ newH # oldH
     \/ newR # oldR /\ newR # Null
     \/ newJ # oldJ /\ newJ # Null

\* mount: restore effect, the persist effects with the initial state, then
\* the persist effects again for what the restore changed
dj_Mount ==
  /\ variant = "dj" /\ ~mounted
  /\ mounted' = TRUE
  /\ LET savedHistory == store[STORAGE_KEYS.history]
         savedResume == store[STORAGE_KEYS.resume]
         savedJd == store[STORAGE_KEYS.jd]
         \* one try block: the first JSON.parse that throws ends the restore
         okH == savedHistory # Corrupt
         okR == okH /\ savedResume # Corrupt
         h == IF Readable(savedHistory) THEN Parse(savedHistory) ELSE history
         r == IF okH /\ Readable(savedResume) THEN Parse(savedResume)
              ELSE resumeData
         j == IF okR /\ Readable(savedJd) THEN Parse(savedJd)
              ELSE jobDescriptionData
         st1 == setItem(store, STORAGE_KEYS.history, Stringify(history))
         st2 == IF resumeData # Null
                THEN setItem(st1, STORAGE_KEYS.resume, Stringify(resumeData))
                ELSE st1
         st3 == IF jobDescriptionData # Null
                THEN setItem(st2, STORAGE_KEYS.jd, Stringify(jobDescriptionData))
                ELSE st2
     IN /\ history' = h
        /\ appended' = h
        /\ resumeData' = r
        /\ jobDescriptionData' = j
        /\ store' = dj_persistEffects(st3, history, h, resumeData, r,
                                      jobDescriptionData, j)
        /\ thrown' = (thrown \/ storeFails)
  /\ UNCHANGED <<variant, notice, ai, hook, proxy, storeFails, optimizedContent, generating, currentView, loading, error, success, analysisResult,
                 pending, now, budget>>

\* useMemo canAnalyze of Dashboard.jsx
dj_canAnalyze ==
  /\ resumeData # Null /\ resumeData.text # <<>>
  /\ jobDescriptionData # Null /\ jobDescriptionData.text # <<>>

\* the feedback effect, run after a handler of Dashboard.jsx: when error or
\* success changed, the cleanup clears the timer and a new timer starts if
\* a notice is shown; when the handler set a notice to the value it already
\* had (noticeSet), the effect does not run and the timer keeps running
dj_feedbackEffect(noticeSet) ==
  notice' = IF error' # error \/ success' # success
            THEN [timer |-> (error' # NoMsg \/ success' # NoMsg),
                  fresh |-> TRUE]
            ELSE [notice EXCEPT !.fresh = IF noticeSet THEN FALSE ELSE @]

\* onResumeFile up to the await
dj_onResumeFile ==
  /\ variant = "dj" /\ mounted /\ CanSpawn
  /\ \E f \in ResumeFiles :
       /\ f.typeOk
       /\ pending' = Spawn([kind |-> "readResume", file |-> f])
  /\ error' = NoMsg
  /\ loading' = TRUE
  /\ UNCHANGED <<variant, ai, hook, proxy, storeFails, optimizedContent, generating, mounted, resumeData, jobDescriptionData, currentView,
                 history, success, analysisResult, store, now, appended,
                 thrown, budget>>
  /\ dj_feedbackEffect(FALSE)

\* readFile resolved: rest of the try block, finally, persist effect
dj_resumeRead ==
  /\ variant = "dj"
  /\ \E p \in InFlight("readResume") :
       LET r == [fileName |-> p.file.name, text |-> p.file.text]
       IN /\ pending' = Settle(p)
          /\ resumeData' = r
          /\ store' = dj_persistEffects(store, history, history, resumeData, r,
                        jobDescriptionData, jobDescriptionData)
          /\ thrown' = (thrown \/ dj_effectsThrow(history, history, resumeData, r,
                                  jobDescriptionData, jobDescriptionData))
  /\ success' = "Resume loaded successfully"
  /\ loading' = FALSE
  /\ UNCHANGED <<variant, ai, hook, proxy, storeFails, optimizedContent, generating, mounted, jobDescriptionData, currentView, history,
                 error, analysisResult, now, appended, budget>>
  /\ dj_feedbackEffect(TRUE)

\* readFile rejected: catch, finally
dj_resumeReadFailed ==
  /\ variant = "dj"
  /\ \E p \in InFlight("readResume") : pending' = Settle(p)
  /\ error' = "Failed to read resume file"
  /\ loading' = FALSE
  /\ UNCHANGED <<variant, ai, hook, proxy, storeFails, optimizedContent, generating, mounted, resumeData, jobDescriptionData, currentView,
                 history, success, analysisResult, store, now, appended,
                 thrown, budget>>
  /\ dj_feedbackEffect(TRUE)

\* onJDFile up to the await (the JD file input exists in file mode only)
dj_onJDFile ==
  /\ variant = "dj" /\ mounted /\ CanSpawn
  /\ jobDescriptionData.mode = "file"
  /\ \E f \in JDFiles : pending' = Spawn([kind |-> "readJD", file |-> f])
  /\ error' = NoMsg
  /\ loading' = TRUE
  /\ UNCHANGED <<variant, ai, hook, proxy, storeFails, optimizedContent, generating, mounted, resumeData, jobDescriptionData, currentView,
                 history, success, analysisResult, store, now, appended,
                 thrown, budget>>
  /\ dj_feedbackEffect(FALSE)

dj_jdRead ==
  /\ variant = "dj"
  /\ \E p \in InFlight("readJD") :
       LET j == [mode |-> "file", fileName |-> p.file.name, text |-> p.file.text]
       IN /\ pending' = Settle(p)
          /\ jobDescriptionData' = j
          /\ store' = dj_persistEffects(store, history, history, resumeData,
                        resumeData, jobDescriptionData, j)
          /\ thrown' = (thrown \/ dj_effectsThrow(history, history, resumeData, resumeData,
                                  jobDescriptionData, j))
  /\ success' = "Job description loaded from file"
  /\ loading' = FALSE
  /\ UNCHANGED <<variant, ai, hook, proxy, storeFails, optimizedContent, generating, mounted, resumeData, currentView, history, error,
                 analysisResult, now, appended, budget>>
  /\ dj_feedbackEffect(TRUE)

dj_jdReadFailed ==
  /\ variant = "dj"
  /\ \E p \in InFlight("readJD") : pending' = Settle(p)
  /\ error' = "Failed to read job description file"
  /\ loading' = FALSE
  /\ UNCHANGED <<variant, ai, hook, proxy, storeFails, optimizedContent, generating, mounted, resumeData, jobDescriptionData, currentView,
                 history, success, analysisResult, store, now, appended,
                 thrown, budget>>
  /\ dj_feedbackEffect(TRUE)

\* onJDText (textarea onChange), then the persist effect
dj_onJDText ==
  /\ variant = "dj" /\ mounted
  /\ \E t \in JDTexts :
       LET j == [jobDescriptionData EXCEPT !.mode = "text", !.text = t]
       IN /\ jobDescriptionData' = j
          /\ store' = dj_persistEffects(store, history, history, resumeData,
                        resumeData, jobDescriptionData, j)
          /\ thrown' = (thrown \/ dj_effectsThrow(history, history, resumeData, resumeData,
                                  jobDescriptionData, j))
  /\ UNCHANGED <<variant, notice, ai, hook, proxy, storeFails, optimizedContent, generating, mounted, resumeData, currentView, history, loading,
                 error, success, analysisResult, pending, now, appended, budget>>

\* the Text / File segmented buttons, then the persist effect
dj_setMode ==
  /\ variant = "dj" /\ mounted
  /\ \E m \in {"text", "file"} :
       LET j == [jobDescriptionData EXCEPT !.mode = m]
       IN /\ jobDescriptionData' = j
          /\ store' = dj_persistEffects(store, history, history, resumeData,
                        resumeData, jobDescriptionData, j)
          /\ thrown' = (thrown \/ dj_effectsThrow(history, history, resumeData, resumeData,
                                  jobDescriptionData, j))
  /\ UNCHANGED <<variant, notice, ai, hook, proxy, storeFails, optimizedContent, generating, mounted, resumeData, currentView, history, loading,
                 error, success, analysisResult, pending, now, appended, budget>>

\* startAnalysis (the Analyze button is disabled without canAnalyze or while
\* loading)
dj_startAnalysis ==
  /\ variant = "dj" /\ mounted /\ ~loading /\ dj_canAnalyze
  /\ IF ~dj_canAnalyze
     THEN /\ error' = "Please provide both resume and job description."
          /\ UNCHANGED <<success, currentView>>
     ELSE /\ error' = NoMsg
          /\ success' = NoMsg
          /\ currentView' = "analysis"
  /\ UNCHANGED <<variant, ai, hook, proxy, storeFails, optimizedContent, generating, mounted, resumeData, jobDescriptionData, history,
                 loading, analysisResult, store, pending, now, appended,
                 thrown, budget>>
  /\ dj_feedbackEffect(FALSE)

\* summaries the Analysis child reports through onComplete
Summaries == {"Good match"}

\* the entry the onComplete callback hands to pushHistory
dj_entry(summary) ==
  [type |-> "analysis", date |-> now, resume |-> resumeData.fileName,
   jd |-> IF jobDescriptionData.fileName # "" THEN jobDescriptionData.fileName
          ELSE "Text",
   resultSummary |-> summary]

\* pushHistory builds item = { id: Date.now(), ...entry }
dj_item(entry) ==
  [id |-> now, type |-> entry.type, date |-> entry.date,
   resume |-> entry.resume, jd |-> entry.jd,
   resultSummary |-> entry.resultSummary]

\* pushHistory: setHistory(h => [item, ...h].slice(0, 20))
pushHistory(h, entry) == Slice(<<dj_item(entry)>> \o h, 20)

\* the Analysis child is rendered
dj_AnalysisShown == currentView = "analysis" /\ dj_canAnalyze

\* onComplete of the rendered Analysis, then the persist effect
dj_onComplete ==
  /\ variant = "dj" /\ mounted /\ dj_AnalysisShown /\ CanRun
  /\ \E summary \in Summaries :
       LET h == pushHistory(history, dj_entry(summary))
       IN /\ history' = h
          /\ appended' = <<dj_item(dj_entry(summary))>> \o appended
          /\ store' = dj_persistEffects(store, history, h, resumeData,
                        resumeData, jobDescriptionData, jobDescriptionData)
          /\ thrown' = (thrown \/ dj_effectsThrow(history, h, resumeData, resumeData,
                                  jobDescriptionData, jobDescriptionData))
  /\ success' = "Analysis completed"
  /\ budget' = budget - 1
  /\ UNCHANGED <<variant, ai, hook, proxy, storeFails, optimizedContent, generating, mounted, resumeData, jobDescriptionData, currentView,
                 loading, error, analysisResult, pending, now>>
  /\ dj_feedbackEffect(TRUE)

\* onError of the rendered Analysis
dj_onError ==
  /\ variant = "dj" /\ mounted /\ dj_AnalysisShown
  /\ error' = "Analysis failed"
  /\ UNCHANGED <<variant, ai, hook, proxy, storeFails, optimizedContent, generating, mounted, resumeData, jobDescriptionData, currentView,
                 history, loading, success, analysisResult, store, pending, now,
                 appended,
                 thrown, budget>>
  /\ dj_feedbackEffect(TRUE)

\* the 3-second timer of the feedback effect fires
dj_noticeTimeout ==
  /\ variant = "dj" /\ mounted
  /\ notice.timer
  /\ error' = NoMsg
  /\ success' = NoMsg
  /\ UNCHANGED <<variant, ai, hook, proxy, storeFails, optimizedContent, generating, mounted, resumeData, jobDescriptionData, currentView,
                 history, loading, analysisResult, store, pending, now, appended,
                 thrown, budget>>
  /\ dj_feedbackEffect(FALSE)

dj_Next ==
  \/ dj_Mount
  \/ dj_onResumeFile
  \/ dj_resumeRead
  \/ dj_resumeReadFailed
  \/ dj_onJDFile
  \/ dj_jdRead
  \/ dj_jdReadFailed
  \/ dj_onJDText
  \/ dj_setMode
  \/ dj_startAnalysis
  \/ dj_onComplete
  \/ dj_onError
  \/ dj_noticeTimeout

\* ================================================================== p002
\* mount: load the saved history
p002_Mount ==
  /\ variant = "p002" /\ ~mounted
  /\ mounted' = TRUE
  /\ LET savedHistory == store[STORAGE_KEYS.history]
         h == IF Readable(savedHistory) THEN Parse(savedHistory) ELSE history
     IN /\ history' = h
        /\ appended' = h
  /\ UNCHANGED <<variant, notice, ai, hook, proxy, storeFails, optimizedContent, generating, resumeData, jobDescriptionData, currentView, loading,
                 error, success, analysisResult, store, pending, now,
                 thrown, budget>>

\* handleResumeUpload up to the await; the continuation keeps the
\* jobDescriptionData of the render that started it
p002_handleResumeUpload ==
  /\ variant = "p002" /\ mounted /\ currentView = "upload" /\ CanSpawn
  /\ \E f \in ResumeFiles :
       /\ f.typeOk
       /\ pending' = Spawn([kind |-> "readResume", file |-> f,
                            other |-> jobDescriptionData])
  /\ loading' = TRUE
  /\ UNCHANGED <<variant, notice, ai, hook, proxy, storeFails, optimizedContent, generating, mounted, resumeData, jobDescriptionData, currentView,
                 history, error, success, analysisResult, store, now, appended,
                 thrown, budget>>

p002_resumeRead ==
  /\ variant = "p002"
  /\ \E p \in InFlight("readResume") :
       /\ pending' = Settle(p)
       /\ resumeData' = [file |-> p.file, text |-> p.file.text]
       /\ currentView' = IF p.other # Null THEN "analysis" ELSE currentView
  /\ loading' = FALSE
  /\ UNCHANGED <<variant, notice, ai, hook, proxy, storeFails, optimizedContent, generating, mounted, jobDescriptionData, history, error, success,
                 analysisResult, store, now, appended,
                 thrown, budget>>

\* readFile rejected: the catch block rethrows (the handler's promise
\* rejects), finally still runs
p002_resumeReadFailed ==
  /\ variant = "p002"
  /\ \E p \in InFlight("readResume") : pending' = Settle(p)
  /\ loading' = FALSE
  /\ thrown' = TRUE
  /\ UNCHANGED <<variant, notice, ai, hook, proxy, storeFails, optimizedContent, generating, mounted, resumeData, jobDescriptionData, currentView,
                 history, error, success, analysisResult, store, now, appended,
                 budget>>

\* handleJDUpload with a File, up to the await
p002_handleJDUpload ==
  /\ variant = "p002" /\ mounted /\ currentView = "upload" /\ CanSpawn
  /\ \E f \in JDFiles :
       /\ f.typeOk
       /\ pending' = Spawn([kind |-> "readJD", file |-> f, other |-> resumeData])
  /\ loading' = TRUE
  /\ UNCHANGED <<variant, notice, ai, hook, proxy, storeFails, optimizedContent, generating, mounted, resumeData, jobDescriptionData, currentView,
                 history, error, success, analysisResult, store, now, appended,
                 thrown, budget>>

p002_jdRead ==
  /\ variant = "p002"
  /\ \E p \in InFlight("readJD") :
       /\ pending' = Settle(p)
       /\ jobDescriptionData' = [text |-> p.file.text]
       /\ currentView' = IF p.other # Null THEN "analysis" ELSE currentView
  /\ loading' = FALSE
  /\ UNCHANGED <<variant, notice, ai, hook, proxy, storeFails, optimizedContent, generating, mounted, resumeData, history, error, success,
                 analysisResult, store, now, appended,
                 thrown, budget>>

p002_jdReadFailed ==
  /\ variant = "p002"
  /\ \E p \in InFlight("readJD") : pending' = Settle(p)
  /\ loading' = FALSE
  /\ thrown' = TRUE
  /\ UNCHANGED <<variant, notice, ai, hook, proxy, storeFails, optimizedContent, generating, mounted, resumeData, jobDescriptionData, currentView,
                 history, error, success, analysisResult, store, now, appended,
                 budget>>

\* handleJDUpload with a string: no await, runs to the end
p002_handleJDText ==
  /\ variant = "p002" /\ mounted /\ currentView = "upload"
  /\ \E t \in JDTexts :
       /\ TextLen(t) > 0
       /\ jobDescriptionData' = [text |-> t]
  /\ currentView' = IF resumeData # Null THEN "analysis" ELSE currentView
  /\ loading' = FALSE
  /\ UNCHANGED <<variant, notice, ai, hook, proxy, storeFails, optimizedContent, generating, mounted, resumeData, history, error, success,
                 analysisResult, store, pending, now, appended,
                 thrown, budget>>

\* scores an analysis can report to saveToHistory
Scores == {50}

\* the entry saveToHistory builds
p002_newEntry(score, date) ==
  [id |-> now, score |-> score, date |-> date,
   resumeName |-> IF resumeData # Null THEN resumeData.file.name
                  ELSE "Pasted Text"]

\* saveToHistory: updatedHistory = [newEntry, ...history].slice(0, 10)
saveToHistory(h, score, date) == Slice(<<p002_newEntry(score, date)>> \o h, 10)

\* saveToHistory(score, date), with its write to localStorage
p002_saveToHistory ==
  /\ variant = "p002" /\ mounted /\ CanRun
  /\ \E score \in Scores :
       LET updatedHistory == saveToHistory(history, score, now)
       IN /\ history' = updatedHistory
          /\ appended' = <<p002_newEntry(score, now)>> \o appended
          /\ store' = setItem(store, STORAGE_KEYS.history,
                              Stringify(updatedHistory))
  \* setItem is called unguarded, after setHistory
  /\ thrown' = (thrown \/ storeFails)
  /\ budget' = budget - 1
  /\ UNCHANGED <<variant, notice, ai, hook, proxy, storeFails, optimizedContent, generating, mounted, resumeData, jobDescriptionData,
                 currentView, loading, error, success, analysisResult,
                 pending, now>>

\* handleReset ("Upload New Files" in the analysis view)
handleReset ==
  /\ variant = "p002" /\ mounted
  /\ currentView = "analysis" /\ resumeData # Null /\ jobDescriptionData # Null
  /\ resumeData' = Null
  /\ jobDescriptionData' = Null
  /\ currentView' = "upload"
  /\ UNCHANGED <<variant, notice, ai, hook, proxy, storeFails, optimizedContent, generating, mounted, history, loading, error, success,
                 analysisResult, store, pending, now, appended,
                 thrown, budget>>

\* the navigation buttons (Analysis is disabled without both documents)
p002_setCurrentView ==
  /\ variant = "p002" /\ mounted
  /\ \E v \in {"upload", "analysis", "history"} :
       /\ v = "analysis" => resumeData # Null /\ jobDescriptionData # Null
       /\ currentView' = v
  /\ UNCHANGED <<variant, notice, ai, hook, proxy, storeFails, optimizedContent, generating, mounted, resumeData, jobDescriptionData, history,
                 loading, error, success, analysisResult, store, pending, now,
                 appended,
                 thrown, budget>>

\* saveToHistory has no caller in part_002, so no step of the running
\* Dashboard takes it; SpecLedger below calls it directly
p002_Next ==
  \/ p002_Mount
  \/ p002_handleResumeUpload
  \/ p002_resumeRead
  \/ p002_resumeReadFailed
  \/ p002_handleJDUpload
  \/ p002_jdRead
  \/ p002_jdReadFailed
  \/ p002_handleJDText
  \/ handleReset
  \/ p002_setCurrentView

Next ==
  \/ Tick
  \/ p003_Next
  \/ p004_Next
  \/ dj_Next
  \/ p002_Next

Spec == Init /\ [][Next]_vars

\* ============================================================ the ledger
\* The history ledger on its own: both documents are loaded (a state Spec
\* reaches), and only the operations that append run, far enough to pass
\* the capacity.
cvDoc == [fileName |-> "cv.txt", text |-> <<"Python", "skills", "experience">>]
jdDoc == [fileName |-> "jd.txt",
          text |-> <<"python", "kubernetes", "and", "experience">>]
cvFile == CHOOSE f \in ResumeFiles : f.name = "cv.txt"

\* the state of each revision once cv.txt and jd.txt are loaded
LedgerStart ==
  /\ mounted = TRUE /\ loading = FALSE /\ thrown = FALSE
  /\ storeFails = FALSE
  /\ notice = NoticeIdle
  /\ ai = AiIdle
  /\ hook = HookFresh
  /\ proxy = ProxyIdle
  /\ optimizedContent = <<>> /\ generating = FALSE
  /\ history = <<>> /\ appended = <<>>
  /\ error = NoMsg /\ success = NoMsg /\ analysisResult = Null
  /\ pending = EmptyBag /\ now = 0
  /\ CASE variant = "p003" ->
            /\ resumeData = cvDoc /\ jobDescriptionData = jdDoc
            /\ currentView = "upload"
            /\ store = [k \in Keys |->
                         IF k = STORAGE_KEYS.resume THEN Stringify(cvDoc)
                         ELSE IF k = STORAGE_KEYS.jd THEN Stringify(jdDoc)
                         ELSE IF k = STORAGE_KEYS.history THEN Stringify(<<>>)
                         ELSE Absent]
       [] variant = "p004" ->
            /\ resumeData = cvDoc /\ jobDescriptionData = jdDoc
            /\ currentView = "upload"
            /\ store = [k \in Keys |->
                         IF k = STORAGE_KEYS.resume THEN Stringify(cvDoc)
                         ELSE IF k = STORAGE_KEYS.jd THEN Stringify(jdDoc)
                         ELSE IF k = STORAGE_KEYS.history THEN Stringify(<<>>)
                         ELSE Absent]
       [] variant = "dj" ->
            /\ resumeData = cvDoc
            /\ jobDescriptionData = [mode |-> "file", fileName |-> "jd.txt",
                                     text |-> jdDoc.text]
            /\ currentView = "analysis"
            /\ store = [k \in Keys |->
                         IF k = STORAGE_KEYS.resume THEN Stringify(cvDoc)
                         ELSE IF k = STORAGE_KEYS.jd
                         THEN Stringify([mode |-> "file", fileName |-> "jd.txt",
                                         text |-> jdDoc.text])
                         ELSE IF k = STORAGE_KEYS.history THEN Stringify(<<>>)
                         ELSE Absent]
       [] variant = "p002" ->
            /\ resumeData = [file |-> cvFile, text |-> cvFile.text]
            /\ jobDescriptionData = [text |-> jdDoc.text]
            /\ currentView = "analysis"
            /\ store = [k \in Keys |-> Absent]

\* the capacity each revision documents for its history (claim C1)
ClaimedCapacity ==
  CASE variant = "p002" -> 10
    [] variant = "p003" -> 10
    [] variant = "p004" -> 50
    [] variant = "dj" -> 20

InitLedger ==
  /\ variant \in Variants
  /\ budget = ClaimedCapacity + Overflow
  /\ LedgerStart

NextLedger ==
  \/ Tick
  \/ p003_handleAnalyze
  \/ p003_analysisTimeout
  \/ p003_goBackToUpload
  \/ p004_runAnalysis
  \/ dj_onComplete
  \/ p002_saveToHistory

SpecLedger == InitLedger /\ [][NextLedger]_vars

\* ------------------------------------------------- start with a used store
\* what an earlier session left in the store
SavedEntry ==
  [id |-> 0 - 1, date |-> 0 - 1, resumeFile |-> "cv.txt", jdFile |-> "jd.txt",
   score |-> 50, coverage |-> 50]
SavedHistory == <<SavedEntry>>
SavedResume == cvDoc
SavedJd ==
  IF variant = "dj"
  THEN [mode |-> "file", fileName |-> "jd.txt", text |-> jdDoc.text]
  ELSE jdDoc

\* the score history of part_005's Analysis view: useState's lazy
\* initializer reads persistKey, then the save effect writes the history
p005_Mount ==
  /\ variant = "p005" /\ ~mounted
  /\ mounted' = TRUE
  /\ LET raw == store[persistKey]
         initial == IF Readable(raw) THEN Parse(raw) ELSE <<>>
     IN /\ history' = initial
        /\ appended' = initial
        /\ store' = setItem(store, persistKey, Stringify(initial))
  /\ UNCHANGED <<variant, notice, ai, hook, proxy, storeFails, optimizedContent, generating, resumeData, jobDescriptionData, currentView, loading,
                 error, success, analysisResult, pending, now, thrown, budget>>

\* the key under which the revision keeps its history
HistoryKey == IF variant = "p005" THEN persistKey ELSE STORAGE_KEYS.history

\* a component about to mount over a store in which every key it uses is
\* missing, valid or unparseable
InitRestore ==
  /\ variant \in Variants \cup {"p005"}
  /\ mounted = FALSE
  /\ resumeData = Null
  /\ jobDescriptionData =
       IF variant = "dj" THEN [mode |-> "text", text |-> <<>>, fileName |-> ""]
       ELSE Null
  /\ currentView = "upload"
  /\ history = <<>>
  /\ loading = FALSE
  /\ error = NoMsg
  /\ success = NoMsg
  /\ analysisResult = Null
  /\ \E h \in {Absent, Stringify(SavedHistory), Corrupt},
        r \in {Absent, Stringify(SavedResume), Corrupt},
        j \in {Absent, Stringify(SavedJd), Corrupt} :
       store = [k \in Keys |->
                 IF k = HistoryKey THEN h
                 ELSE IF variant = "p005" THEN Absent
                 ELSE IF k = STORAGE_KEYS.resume THEN r
                 ELSE IF k = STORAGE_KEYS.jd THEN j
                 ELSE Absent]
  /\ pending = EmptyBag
  /\ now = 0
  /\ appended = <<>>
  /\ thrown = FALSE
  /\ budget = MaxRuns
  /\ storeFails = FALSE
  /\ notice = NoticeIdle
  /\ ai = AiIdle
  /\ hook = HookFresh
  /\ proxy = ProxyIdle
  /\ optimizedContent = <<>> /\ generating = FALSE

NextRestore ==
  \/ p003_Mount
  \/ p004_Mount
  \/ dj_Mount
  \/ p002_Mount
  \/ p005_Mount

SpecRestore == InitRestore /\ [][NextRestore]_vars

\* ------------------------------------------- a store that rejects writes
\* the Dashboard of Init over a store whose setItem and removeItem throw
InitQuota ==
  /\ variant \in Variants
  /\ mounted = FALSE
  /\ resumeData = Null
  /\ jobDescriptionData =
       IF variant = "dj" THEN [mode |-> "text", text |-> <<>>, fileName |-> ""]
       ELSE Null
  /\ currentView = "upload"
  /\ history = <<>>
  /\ loading = FALSE
  /\ error = NoMsg
  /\ success = NoMsg
  /\ analysisResult = Null
  /\ store = [k \in Keys |-> Absent]
  /\ pending = EmptyBag
  /\ now = 0
  /\ appended = <<>>
  /\ thrown = FALSE
  /\ budget = MaxRuns
  /\ storeFails = TRUE
  /\ notice = NoticeIdle
  /\ ai = AiIdle
  /\ hook = HookFresh
  /\ proxy = ProxyIdle
  /\ optimizedContent = <<>> /\ generating = FALSE

SpecQuota == InitQuota /\ [][Next]_vars

\* ------------------------------------------------------------ Generation
\* Generation.jsx receives the resume document object and the analysis
\* result as the props resumeData and analysisData; its own state is
\* optimizedContent and generating (improvements is set together with
\* optimizedContent, its error only on paths the disabled button excludes).
PROFESSIONAL_SUMMARY ==
  <<"PROFESSIONAL", "SUMMARY", "Experienced", "professional", "with",
    "proven", "track", "record">>

\* resumeText.toLowerCase().includes('professional summary')
includesProfessionalSummary(resumeText) ==
  \E i \in 1..(Len(resumeText) - 1) :
    /\ toLowerCase(resumeText[i]) = "professional"
    /\ toLowerCase(resumeText[i + 1]) = "summary"

applyOptimizations(resumeText, analysis) ==
  LET withSkills ==
        IF Len(analysis.missingKeywords) > 0
        THEN resumeText \o <<"KEY", "SKILLS">>
                        \o Slice(analysis.missingKeywords, 5)
        ELSE resumeText
  IN IF ~includesProfessionalSummary(resumeText)
     THEN PROFESSIONAL_SUMMARY \o withSkills
     ELSE withSkills

\* generateOptimizedResume up to the await (Generate and Regenerate buttons)
generateOptimizedResume ==
  /\ mounted /\ resumeData # Null /\ analysisResult # Null
  /\ optimizedContent = <<>> => ~generating
  /\ CanSpawn /\ CanRun
  /\ generating' = TRUE
  /\ pending' = Spawn([kind |-> "generate"])
  /\ budget' = budget - 1
  /\ UNCHANGED <<variant, notice, ai, hook, proxy, storeFails, optimizedContent, mounted, resumeData,
                 jobDescriptionData, currentView, history, loading, error,
                 success, analysisResult, store, now, appended, thrown>>

\* the 2 s timer of generateOptimizedResume resolved
gen_generated ==
  /\ \E p \in InFlight("generate") : pending' = Settle(p)
  /\ optimizedContent' = applyOptimizations(resumeData.text, analysisResult)
  /\ generating' = FALSE
  /\ UNCHANGED <<variant, notice, ai, hook, proxy, storeFails, mounted, resumeData, jobDescriptionData,
                 currentView, history, loading, error, success,
                 analysisResult, store, now, appended, thrown, budget>>

\* handleApply: resumeData.text = optimizedContent, an assignment to the
\* object the parent holds (no setter is called, nothing is persisted)
handleApply ==
  /\ mounted /\ optimizedContent # <<>>
  /\ resumeData' = IF resumeData # Null
                   THEN [resumeData EXCEPT !.text = optimizedContent]
                   ELSE resumeData
  /\ UNCHANGED <<variant, notice, ai, hook, proxy, storeFails, optimizedContent, generating, mounted,
                 jobDescriptionData, currentView, history, loading, error,
                 success, analysisResult, store, pending, now, appended,
                 thrown, budget>>

\* a Dashboard of part_003 or part_004 with both documents loaded, showing
\* Generation next to its analysis
InitGeneration ==
  /\ variant \in {"p003", "p004"}
  /\ budget = 2 * MaxRuns
  /\ LedgerStart

NextGeneration ==
  \/ Tick
  \/ p003_handleAnalyze
  \/ p003_analysisTimeout
  \/ p004_runAnalysis
  \/ generateOptimizedResume
  \/ gen_generated
  \/ handleApply

SpecGeneration == InitGeneration /\ [][NextGeneration]_vars

\* LedgerStart is a state of Spec (TLC refutes this as an invariant of Spec)
LedgerStartUnreached == ~LedgerStart

\* ================================================================ claims
\* C1: the history never holds more entries than the capacity of its
\* revision (10, 10, 50, 20), and once capacity + 5 entries were appended to
\* an empty history exactly capacity entries are left, the newest ones: the
\* 5 oldest are gone.
C1_HistoryCapacity ==
  /\ Len(history) <= ClaimedCapacity
  /\ Len(appended) = ClaimedCapacity + 5 =>
       /\ Len(history) = ClaimedCapacity
       /\ \A i \in 1..ClaimedCapacity : history[i] = appended[i]

\* capacity + 5 entries appended, 5 of them evicted, the oldest one older
\* than everything kept
C1_Witness ==
  /\ Len(appended) = ClaimedCapacity + 5
  /\ Len(history) = ClaimedCapacity
  /\ appended[Len(appended)].id < history[Len(history)].id

\* C2: every append puts the new entry at index 0 (position 1 here) and the
\* surviving older entries follow it in their previous order.
C2_MostRecentFirst ==
  [][history' # history =>
       /\ Len(history') >= 1
       /\ history'[1] = appended'[1]
       /\ \A i \in 2..Len(history') : history'[i] = history[i - 1]]_vars

\* a history that evicted an entry and whose head is newer than its last
\* entry
C2_Witness ==
  /\ Len(history) = ClaimedCapacity
  /\ Len(appended) > ClaimedCapacity
  /\ history[1] = appended[1]
  /\ history[1].id > history[Len(history)].id

\* C3: no two entries of the history share an id (in the revisions whose
\* append is wired to a completed analysis).
C3_UniqueIds ==
  variant \in {"p003", "p004", "dj"} =>
    \A i \in 1..Len(history) : \A j \in 1..Len(history) :
      i # j => history[i].id # history[j].id

\* a step that completes an analysis of p003 (its timer item p settles) or
\* runs runAnalysis of p004, with the documents r and j that were scored
C4_Recorded(r, j, result) ==
  /\ analysisResult' = result
  /\ Len(history') = Min(Len(history) + 1, ClaimedCapacity)
  /\ \A i \in 2..Len(history') : history'[i] = history[i - 1]
  /\ history'[1].score = analysisResult'.score
  /\ history'[1].coverage = analysisResult'.coverage
  /\ history'[1].resumeFile = r.fileName
  /\ history'[1].jdFile = j.fileName

\* C4 as stated: a successful analysis replaces the result, appends exactly
\* one entry with the score, the coverage and the file names of what was
\* scored, and error is null when it is done.
C4_Original ==
  [][/\ \A p \in InFlight("analysis") :
          pending' = Settle(p) =>
            /\ C4_Recorded(p.resume, p.jd,
                           mockAnalysisEngine(p.resume.text, p.jd.text))
            /\ error' = NoMsg
     /\ (variant = "p004" /\ budget' = budget - 1) =>
          /\ C4_Recorded(resumeData, jobDescriptionData,
               p004_score(resumeData.text, jobDescriptionData.text))
          /\ error' = NoMsg]_vars

\* C4 (amended): a successful analysis replaces the result and appends
\* exactly one entry with the score, the coverage and the file names of what
\* was scored; it clears error when it starts, and its completion sets no
\* error (what another handler reported in between stays).
C4_AnalysisRecorded ==
  [][/\ \A p \in InFlight("analysis") :
          pending' = Settle(p) =>
            /\ C4_Recorded(p.resume, p.jd,
                           mockAnalysisEngine(p.resume.text, p.jd.text))
            /\ error' = error
     /\ (variant \in {"p003", "p004"} /\ budget' = budget - 1) =>
          error' = NoMsg
     /\ (variant = "p004" /\ budget' = budget - 1) =>
          C4_Recorded(resumeData, jobDescriptionData,
            p004_score(resumeData.text, jobDescriptionData.text))]_vars

\* an analysis has completed: its result is shown, the newest entry carries
\* its score and coverage, and error is null
C4_Witness ==
  /\ variant \in {"p003", "p004"}
  /\ analysisResult # Null
  /\ Len(history) >= 1
  /\ history[1].score = analysisResult.score
  /\ history[1].coverage = analysisResult.coverage
  /\ history[1].resumeFile = "cv.txt"
  /\ error = NoMsg

\* the resume or the job description is missing or has empty text
C5_DocsMissing ==
  \/ resumeData = Null
  \/ jobDescriptionData = Null
  \/ resumeData.text = <<>>
  \/ jobDescriptionData.text = <<>>

\* C5: an analysis invoked while a document is missing or empty sets an
\* error, schedules no scoring and leaves result and history unchanged.
C5_Original ==
  [][(/\ C5_DocsMissing
      /\ \/ variant \in {"p003", "p004"} /\ budget' = budget - 1
         \/ dj_startAnalysis) =>
       /\ error' # NoMsg
       /\ pending' = pending
       /\ analysisResult' = analysisResult
       /\ history' = history]_vars

\* C6: the result of an analysis whose documents were replaced or cleared
\* since it started sets no result, switches no view and appends no entry.
C6_Original ==
  [][\A p \in InFlight("analysis") :
       (/\ pending' = Settle(p)
        /\ p.resume # resumeData \/ p.jd # jobDescriptionData) =>
         /\ analysisResult' = analysisResult
         /\ currentView' = currentView
         /\ history' = history]_vars

\* C7: at most one analysis is in flight.
C7_Original == AnalysesInFlight <= 1

\* C8: once no file read and no analysis is in flight, loading is false.
C8_LoadingFalseWhenIdle == pending = EmptyBag => loading = FALSE

\* idle after a completed analysis, a reset and a failed read
C8_Witness ==
  /\ pending = EmptyBag /\ ~loading
  /\ Len(history) >= 1
  /\ resumeData = Null
  /\ error # NoMsg

\* C9: after clearAll and its effects, resume, job description, result and
\* error are null and the two document keys are absent from the store.
C9_ResetClears ==
  [][(p003_clearAll \/ p004_clearAll) =>
       /\ resumeData' = Null
       /\ jobDescriptionData' = Null
       /\ analysisResult' = Null
       /\ error' = NoMsg
       /\ store'[STORAGE_KEYS.resume] = Absent
       /\ store'[STORAGE_KEYS.jd] = Absent]_vars

\* documents were loaded and analysed, then everything was reset
C9_Witness ==
  /\ variant \in {"p003", "p004"}
  /\ Len(appended) >= 1
  /\ resumeData = Null /\ jobDescriptionData = Null
  /\ analysisResult = Null /\ error = NoMsg
  /\ store[STORAGE_KEYS.resume] = Absent /\ store[STORAGE_KEYS.jd] = Absent

\* no entry of the history is missing after the step, unless the step is an
\* append that evicted the oldest entry of a full history
C10_NoEntryRemoved ==
  LET n == Len(history)
      m == Len(history')
  IN \/ m >= n /\ \A i \in 1..n : history'[i + m - n] = history[i]
     \/ /\ n = ClaimedCapacity /\ m = n
        /\ \A i \in 2..m : history'[i] = history[i - 1]

\* C10: a reset leaves the history and the persisted history unchanged, and
\* no step removes an entry except the eviction of an append.
C10_HistoryKept ==
  [][/\ (p003_clearAll \/ p004_clearAll \/ handleReset) =>
          /\ history' = history
          /\ store'[STORAGE_KEYS.history] = store[STORAGE_KEYS.history]
     /\ C10_NoEntryRemoved]_vars

\* a reset has run (no documents, upload view) and the history still holds
\* the entries appended before it
C10_Witness ==
  /\ variant \in {"p003", "p004"}
  /\ resumeData = Null /\ currentView = "upload"
  /\ Len(history) >= 1
  /\ history = appended
  /\ store[STORAGE_KEYS.history] = Stringify(history)

\* ---------------------------------------------------------------- C11
\* nothing is in flight: every handler has run to its end and the effects
\* of the last render have run
Quiescent == mounted = TRUE /\ pending = EmptyBag

\* what the store holds for a document that was written after its last
\* change (a cleared document has its key removed)
PersistedDoc(doc) == IF doc = Null THEN Absent ELSE Stringify(doc)

\* C11: at every quiescent state the value stored under each fixed key is
\* the serialization of the in-memory value: the resume and the job
\* description under their keys, and a history that has entries under the
\* history key.
C11_PersistedAgrees ==
  Quiescent =>
    /\ store[STORAGE_KEYS.resume] = PersistedDoc(resumeData)
    /\ store[STORAGE_KEYS.jd] = PersistedDoc(jobDescriptionData)
    /\ history # <<>> => store[STORAGE_KEYS.history] = Stringify(history)

\* ---------------------------------------------------------------- C12
\* the step in which the component mounts and its restore runs
MountStep == mounted = FALSE /\ mounted' = TRUE

\* C12: in the revisions that restore all three keys (part_004 and
\* Dashboard.jsx), a mount restores every key whose stored value is valid,
\* whatever the other two keys hold.
C12_RestoredIndependently ==
  [][MountStep /\ variant \in {"p004", "dj"} =>
       /\ Readable(store[STORAGE_KEYS.history]) =>
            history' = Parse(store[STORAGE_KEYS.history])
       /\ Readable(store[STORAGE_KEYS.resume]) =>
            resumeData' = Parse(store[STORAGE_KEYS.resume])
       /\ Readable(store[STORAGE_KEYS.jd]) =>
            jobDescriptionData' = Parse(store[STORAGE_KEYS.jd])]_vars

\* ---------------------------------------------------------------- C13
\* C13: a mount over an unparseable history value throws nothing, leaves
\* the in-memory history empty and replaces the stored value by the
\* serialization of the empty history.
C13_CorruptHistoryDropped ==
  [][MountStep /\ store[HistoryKey] = Corrupt =>
       /\ thrown' = FALSE
       /\ history' = <<>>
       /\ store'[HistoryKey] = Stringify(<<>>)]_vars

\* ---------------------------------------------------------------- C14
\* C14: over a store that rejects writes and removals no step lets an
\* exception escape (the only handlers that throw are the read failures of
\* part_002, which do not touch the store), and clearAll of part_004 ends in
\* the upload view as it does when the removal succeeds.
C14_StoreFailureNonFatal ==
  [][storeFails =>
       /\ thrown' # thrown => variant = "p002"
       /\ p004_clearAll => currentView' = "upload"]_vars

\* ---------------------------------------------------------------- C15
\* the steps that load a resume (a completed read, the restore at mount) or
\* reset the documents
ResumeLoadOrReset ==
  \/ p003_resumeRead \/ p004_resumeRead \/ dj_resumeRead \/ p002_resumeRead
  \/ MountStep
  \/ p003_clearAll \/ p004_clearAll \/ handleReset

\* C15: the resume document held in the session state changes only in a
\* step that loads a resume or resets the documents.
C15_ResumeOwned == [][resumeData' # resumeData => ResumeLoadOrReset]_vars

\* =============================================================== scoring
\* The scoring engines and the score the Analysis view shows, over all
\* short texts of a small vocabulary: a capitalised word, a word of four
\* letters, one of three, one of two and a long one.
ScoreWords == {"Python", "java", "and", "go", "kubernetes"}

RECURSIVE TextsUpTo(_)
TextsUpTo(n) ==
  IF n = 0 THEN {<<>>}
  ELSE LET shorter == TextsUpTo(n - 1)
       IN shorter \cup {Append(t, w) : t \in shorter, w \in ScoreWords}

ScoreTexts == TextsUpTo(MaxWords)

\* the texts of scenario A, as the words the engines' patterns find in them
\* (the patterns skip blanks, commas and full stops)
ScenarioResume ==
  <<"Experienced", "engineer", "with", "Python", "and", "distributed",
    "systems", "skills">>
ScenarioJd ==
  <<"Looking", "for", "an", "engineer", "with", "Python", "Kubernetes",
    "and", "distributed", "systems", "experience">>

\* the pairs of a resume text and a job-description text that are scored
\* a job description with eleven distinct words of three letters or more,
\* eight of them longer than four letters
LongJd == ScenarioJd \o <<"skills">>

ScorePairs ==
  (ScoreTexts \X ScoreTexts)
    \cup {<<ScenarioResume, ScenarioJd>>, <<(<<"go">>), LongJd>>}

\* a Dashboard of part_003 or part_004 holding a resume and a job
\* description, before its one analysis
InitScore ==
  /\ variant \in {"p003", "p004"}
  /\ mounted = TRUE /\ loading = FALSE /\ thrown = FALSE
  /\ storeFails = FALSE
  /\ notice = NoticeIdle
  /\ ai = AiIdle
  /\ hook = HookFresh
  /\ proxy = ProxyIdle
  /\ optimizedContent = <<>> /\ generating = FALSE
  /\ history = <<>> /\ appended = <<>>
  /\ error = NoMsg /\ success = NoMsg /\ analysisResult = Null
  /\ pending = EmptyBag /\ now = 0
  /\ currentView = "upload"
  /\ budget = 1
  /\ \E p \in ScorePairs :
       /\ resumeData = [fileName |-> "cv.txt", text |-> p[1]]
       /\ jobDescriptionData = [fileName |-> "jd.txt", text |-> p[2]]
  /\ store = [k \in Keys |->
               IF k = STORAGE_KEYS.resume THEN Stringify(resumeData)
               ELSE IF k = STORAGE_KEYS.jd THEN Stringify(jobDescriptionData)
               ELSE IF k = STORAGE_KEYS.history THEN Stringify(<<>>)
               ELSE Absent]

NextScore ==
  \/ p003_handleAnalyze
  \/ p003_analysisTimeout
  \/ p004_runAnalysis

SpecScore == InitScore /\ [][NextScore]_vars

\* the engine of the revision at hand
Engine(resumeText, jdText) ==
  IF variant = "p004" THEN p004_score(resumeText, jdText)
  ELSE mockAnalysisEngine(resumeText, jdText)

\* the job-description keywords of the engine at hand, deduplicated: the
\* tokens jdWords of runAnalysis, of mockAnalysisEngine
JdKeywords(jdText) ==
  IF variant = "p004" THEN Dedup(AlphaWords3(jdText))
  ELSE Dedup(WordsOf(jdText))

\* an analysis has run on the documents held
Scored == analysisResult # Null

\* ------------------------------------------------- the score of Analysis
\* a JavaScript number that is an integer, and NaN
Num(n) == [nan |-> FALSE, val |-> n]
NaN == [nan |-> TRUE, val |-> 0]

\* the values experienceMatch takes in the results of mockAnalysisEngine
Categories == {"Strong", "Moderate", "Weak"}

\* data.experienceMatch || 0 converted to a number: the results of the
\* engines either lack the field or hold one of the category names
experienceNumber(data) ==
  IF "experienceMatch" \in DOMAIN data
  THEN IF data.experienceMatch \in Categories THEN NaN
       ELSE Num(data.experienceMatch)
  ELSE Num(0)

\* data.sectionScores?.overall || 0
sectionOverall(data) ==
  IF "sectionScores" \in DOMAIN data
  THEN IF "overall" \in DOMAIN data.sectionScores
       THEN data.sectionScores.overall ELSE 0
  ELSE 0

\* computeATSScore of Analysis.jsx
computeATSScore(data) ==
  IF data = Null THEN Num(0)
  ELSE LET keywordScore == data.coverage
           sectionScore == sectionOverall(data)
           experienceScore == experienceNumber(data)
       IN IF experienceScore.nan THEN NaN
          ELSE Num(Round(4 * keywordScore + 3 * sectionScore
                           + 3 * experienceScore.val, 10))

\* actualScore of Analysis.jsx
actualScore == IF analysisResult # Null THEN computeATSScore(analysisResult)
               ELSE Num(0)

\* the sum and the number of the numeric values of data.sectionScores
sectionValues(data) ==
  IF "sectionScores" \in DOMAIN data
  THEN LET sec == data.sectionScores
       IN [sum |-> sec.skills + sec.experience + sec.education, n |-> 3]
  ELSE [sum |-> 0, n |-> 0]

\* computeATSScore of part_005: the rates are fractions of 1
p005_computeATSScore(data) ==
  IF data = Null THEN Num(0)
  ELSE LET matched == Len(data.matchedKeywords)
           missing == Len(data.missingKeywords)
           keywordTotal == IF matched + missing = 0 THEN 1
                           ELSE matched + missing
           sv == sectionValues(data)
           n == IF sv.n = 0 THEN 1 ELSE sv.n
           e == experienceNumber(data)
           experience == Max(0, Min(1, e.val))
       IN IF e.nan THEN NaN
          ELSE Num(Round(4000 * matched * n + 30 * sv.sum * keywordTotal
                           + 3000 * experience * n * keywordTotal,
                         100 * n * keywordTotal))

\* computedScore of part_005
computedScore ==
  IF analysisResult # Null /\ analysisResult.score # 0
  THEN Num(analysisResult.score)
  ELSE p005_computeATSScore(analysisResult)

\* ---------------------------------------------------------------- C16
\* C16: the matched and the missing keywords of a result are disjoint, their
\* union is the deduplicated keyword set of the job description that was
\* scored, and their lengths add up to the number of those keywords.
C16_KeywordsPartition ==
  Scored =>
    LET matched == analysisResult.matchedKeywords
        missing == analysisResult.missingKeywords
        keywords == JdKeywords(jobDescriptionData.text)
    IN /\ Range(matched) \cap Range(missing) = {}
       /\ Range(matched) \cup Range(missing) = Range(keywords)
       /\ Len(matched) + Len(missing) = Len(keywords)

\* ---------------------------------------------------------------- C17
\* C17: when the job description that was scored holds no keyword, nothing
\* was thrown, the coverage is 0, the score is an integer from 0 to 100 and
\* both keyword lists are empty.
C17_NoKeywords ==
  Scored /\ JdKeywords(jobDescriptionData.text) = <<>> =>
    /\ thrown = FALSE
    /\ analysisResult.coverage = 0
    /\ analysisResult.score \in 0..100
    /\ analysisResult.matchedKeywords = <<>>
    /\ analysisResult.missingKeywords = <<>>

\* C17 witness: a resume with words was scored against a job description
\* without keywords
C17_Witness ==
  /\ Scored
  /\ JdKeywords(jobDescriptionData.text) = <<>>
  /\ resumeData.text # <<>>

\* ---------------------------------------------------------------- C18
\* round(coverage*0.4 + sectionAverage*0.3 + experienceMatch*0.3) clamped to
\* 0..100, the section average given as the sum and the number of the
\* section scores
WeightedScore(coverage, sectionSum, sectionCount, experienceMatch) ==
  Min(100, Max(0, Round(4 * coverage * sectionCount + 3 * sectionSum
                          + 3 * experienceMatch * sectionCount,
                        10 * sectionCount)))

\* the section scores a result carries; any average on the scale when it
\* carries none
SectionReadings(data) ==
  IF "sectionScores" \in DOMAIN data THEN {sectionValues(data)}
  ELSE {[sum |-> v, n |-> 1] : v \in 0..100}

\* no engine gives a numeric experienceMatch: any value on the scale
ExperienceReadings == 0..100

\* C18: for some reading of the section average and of the experience match
\* on the 0..100 scale, the score of the engine, the score Analysis.jsx
\* shows and the score part_005 shows are all the 40/30/30 weighted score.
C18_WeightedEverywhere ==
  Scored =>
    \E s \in SectionReadings(analysisResult), e \in ExperienceReadings :
      LET w == WeightedScore(analysisResult.coverage, s.sum, s.n, e)
      IN /\ analysisResult.score = w
         /\ actualScore = Num(w)
         /\ computedScore = Num(w)

\* C18 for the engines alone
C18_EnginesWeighted ==
  Scored =>
    \E s \in SectionReadings(analysisResult), e \in ExperienceReadings :
      analysisResult.score =
        WeightedScore(analysisResult.coverage, s.sum, s.n, e)

\* ---------------------------------------------------------------- C19
\* a number that is an integer from 0 to 100
IsPercentage(x) == ~x.nan /\ x.val \in 0..100

\* C19: for every result an engine produced, the score Analysis shows
\* (actualScore of Analysis.jsx, computedScore of part_005) is an integer
\* from 0 to 100 and not NaN.
C19_ShownScoreIsPercentage ==
  Scored => IsPercentage(actualScore) /\ IsPercentage(computedScore)

\* ---------------------------------------------------------------- C20
\* the text with the word w put in after its first i words
InsertWord(text, i, w) ==
  SubSeq(text, 1, i) \o <<w>> \o SubSeq(text, i + 1, Len(text))

\* the words whose addition to a resume adds a keyword of the job description
KeywordSpellings(jdText) ==
  {w \in ScoreWords : toLowerCase(w) \in Range(JdKeywords(jdText))}

\* C20: scoring the resume with a keyword of the job description added
\* anywhere in it, against the same job description, gives a coverage that
\* is not below the coverage of the result.
C20_CoverageMonotone ==
  Scored =>
    \A w \in KeywordSpellings(jobDescriptionData.text),
       i \in 0..Len(resumeData.text) :
      Engine(InsertWord(resumeData.text, i, w),
             jobDescriptionData.text).coverage >= analysisResult.coverage

\* C20 witness: a scored resume that lacks a keyword of the job description
\* and whose coverage rises when the keyword is added
C20_Witness ==
  /\ Scored
  /\ \E w \in KeywordSpellings(jobDescriptionData.text) :
       /\ toLowerCase(w) \notin Range(WordsOf(resumeData.text))
       /\ Engine(Append(resumeData.text, w),
                 jobDescriptionData.text).coverage > analysisResult.coverage

\* ---------------------------------------------------------------- C21
\* the stop-words the scenario names
StopWords == {"and", "for", "with"}

\* C21: the result for the resume and the job description of scenario A
\* lists python, engineer, distributed, systems and experience as matched,
\* kubernetes and looking as missing, and no stop-word in either list.
C21_ScenarioA ==
  /\ Scored
  /\ resumeData.text = ScenarioResume
  /\ jobDescriptionData.text = ScenarioJd
  => LET matched == Range(analysisResult.matchedKeywords)
         missing == Range(analysisResult.missingKeywords)
     IN /\ {"python", "engineer", "distributed", "systems", "experience"}
             \subseteq matched
        /\ {"kubernetes", "looking"} \subseteq missing
        /\ (matched \cup missing) \cap StopWords = {}

\* ------------------------------------------- actionableTips of part_005
\* A tip is the pair of its template and the word put into it: two tips
\* are the same string exactly when both agree.
\* result?.experienceMatch ?? 0 compared with 0.6: a category name converts
\* to NaN, and NaN < 0.6 is false
experienceBelow(data) ==
  IF "experienceMatch" \in DOMAIN data
  THEN IF data.experienceMatch \in Categories THEN FALSE
       ELSE 10 * data.experienceMatch < 6
  ELSE TRUE

\* Object.entries(result?.sectionScores || {})
sectionEntries(data) ==
  IF "sectionScores" \in DOMAIN data
  THEN <<[name |-> "skills", val |-> data.sectionScores.skills],
         [name |-> "experience", val |-> data.sectionScores.experience],
         [name |-> "education", val |-> data.sectionScores.education]>>
  ELSE <<>>

\* result?.requiredKeywords || []
requiredOf(data) ==
  IF "requiredKeywords" \in DOMAIN data THEN data.requiredKeywords ELSE <<>>

\* the two tips pushed for every missing keyword
RECURSIVE keywordTips(_)
keywordTips(missing) ==
  IF missing = <<>> THEN <<>>
  ELSE <<(<<"bullet", Head(missing)>>), (<<"place", Head(missing)>>)>>
         \o keywordTips(Tail(missing))

\* the tips pushed for the required keywords that are not matched
RECURSIVE requiredTips(_, _)
requiredTips(required, matched) ==
  IF required = <<>> THEN <<>>
  ELSE (IF Head(required) \in Range(matched) THEN <<>>
        ELSE <<(<<"required", Head(required)>>)>>)
         \o requiredTips(Tail(required), matched)

\* the tips pushed for the sections whose score is below 70
RECURSIVE sectionTips(_)
sectionTips(entries) ==
  IF entries = <<>> THEN <<>>
  ELSE (IF Head(entries).val < 70
        THEN <<(<<"strengthen", Head(entries).name>>)>> ELSE <<>>)
         \o sectionTips(Tail(entries))

\* the array tips before it is deduplicated and cut
tips(data) ==
  keywordTips(data.missingKeywords)
    \o requiredTips(requiredOf(data), data.matchedKeywords)
    \o sectionTips(sectionEntries(data))
    \o (IF experienceBelow(data) THEN <<(<<"align", "">>)>> ELSE <<>>)

\* variant of actionableTips without the deduplication
actionableTips_notUnique(data) == Slice(tips(data), 20)

\* Array.from(new Set(tips)).slice(0, 20)
actionableTips(data) == Slice(Dedup(tips(data)), 20)

\* ---------------------------------------------------------------- C22
\* C22: the tips shown for a result hold no string twice and are at most
\* 20.  (The tips are a function of the result alone, which is how they are
\* modelled: the same result gives the same tips in the same order.)
C22_TipsUniqueAndCapped ==
  Scored =>
    LET t == actionableTips(analysisResult)
    IN /\ Len(t) <= 20
       /\ \A i, j \in 1..Len(t) : t[i] = t[j] => i = j

\* C22 witness: a result with more than 20 distinct tips before the cut
C22_Witness ==
  Scored /\ Len(Dedup(tips(analysisResult))) > 20

\* ---------------------------------------------------------------- C23
\* C23: the tips shown for a result hold the tip of every section scoring
\* below 70, the tip of every required keyword that is not matched, and
\* the experience tip when the experience match is below the threshold.
C23_StructuralTipsKept ==
  Scored =>
    LET shown == Range(actionableTips(analysisResult))
    IN /\ Range(sectionTips(sectionEntries(analysisResult))) \subseteq shown
       /\ Range(requiredTips(requiredOf(analysisResult),
                             analysisResult.matchedKeywords)) \subseteq shown
       /\ experienceBelow(analysisResult) => <<"align", "">> \in shown

\* ---------------------------------------------------------------- C24
\* the steps in which a file read of a resume or of a job description fails
ReadFailedStep ==
  \/ p002_resumeReadFailed \/ p002_jdReadFailed
  \/ p003_resumeReadFailed \/ p003_jdReadFailed
  \/ p004_resumeReadFailed \/ p004_jdReadFailed
  \/ dj_resumeReadFailed \/ dj_jdReadFailed

\* C24: a failed file read throws nothing past the handler, leaves an error
\* message, ends with loading false and leaves both documents as they were.
C24_ReadFailureContained ==
  [][ReadFailedStep =>
       /\ thrown' = thrown
       /\ error' # NoMsg
       /\ loading' = FALSE
       /\ resumeData' = resumeData
       /\ jobDescriptionData' = jobDescriptionData]_vars

\* ================================================== api/optimize-resume.js
\* One serverless function instance serving requests one after the other.
\* proxy.statuses are the statuses sent for the request at hand, proxy.log
\* the statuses sent for the requests before it.
Methods == {"OPTIONS", "GET", "POST"}
\* req.body: absent, or an object with or without the two fields (an empty
\* string counts as absent: "!resumeText")
Bodies == {"none", "empty", "resumeOnly", "jdOnly", "both"}
\* what the remote service answers: its HTTP status, and for 200 the shape
\* of the JSON body
UpstreamAnswers ==
  {"200 array", "200 object", "200 other", "200 malformed",
   "401", "429", "500", "503"}
\* error.code of a rejected fetch ("" when the error carries none)
FetchErrorCodes == {"ENOTFOUND", "ECONNREFUSED", "ETIMEDOUT", "ECONNRESET", ""}

\* res.status(code).json(...) / .end()
Send(p, code) == [p EXCEPT !.statuses = Append(@, code)]

\* the status the catch block sends for an error with the given code
CatchStatus(code) ==
  IF code \in {"ENOTFOUND", "ECONNREFUSED"} THEN 503
  ELSE IF code = "ETIMEDOUT" THEN 504
  ELSE 500

\* handler, from the arrival of a request to its response or to the
\* awaited fetch
proxy_handler ==
  /\ proxy.phase # "fetching"
  /\ Len(proxy.log) + Len(proxy.statuses) < MaxRequests
  /\ \E m \in Methods, b \in Bodies, k \in BOOLEAN :
       LET p == [phase |-> "answered", method |-> m, body |-> b,
                 apiKey |-> k, statuses |-> <<>>, called |-> FALSE,
                 cause |-> "", log |-> proxy.log \o proxy.statuses]
       IN proxy' =
            IF m = "OPTIONS" THEN Send(p, 200)
            ELSE IF m # "POST" THEN Send(p, 405)
            \* destructuring an absent body throws a TypeError: catch
            ELSE IF b = "none" THEN Send(p, CatchStatus(""))
            ELSE IF b # "both" THEN Send(p, 400)
            ELSE IF ~k THEN Send(p, 500)
            ELSE [p EXCEPT !.phase = "fetching", !.called = TRUE]
  /\ UNCHANGED <<variant, notice, ai, hook, storeFails, optimizedContent, generating, mounted,
                 resumeData, jobDescriptionData, currentView, history,
                 loading, error, success, analysisResult, store, pending,
                 now, appended, thrown, budget>>

\* the fetch resolved: the status mapping, or the extraction of the text
proxy_fetchResolved ==
  /\ proxy.phase = "fetching"
  /\ \E a \in UpstreamAnswers :
       LET p == [proxy EXCEPT !.phase = "answered", !.cause = a]
       IN proxy' =
            IF a = "401" THEN Send(p, 500)
            ELSE IF a = "429" THEN Send(p, 429)
            ELSE IF a \in {"500", "503"} THEN Send(p, 500)
            \* response.json() rejects: catch, the error has no code
            ELSE IF a = "200 malformed" THEN Send(p, CatchStatus(""))
            ELSE IF a = "200 other" THEN Send(p, 500)
            ELSE Send(p, 200)
  /\ UNCHANGED <<variant, notice, ai, hook, storeFails, optimizedContent, generating, mounted,
                 resumeData, jobDescriptionData, currentView, history,
                 loading, error, success, analysisResult, store, pending,
                 now, appended, thrown, budget>>

\* the fetch rejected: the catch block
proxy_fetchRejected ==
  /\ proxy.phase = "fetching"
  /\ \E c \in FetchErrorCodes :
       proxy' = Send([proxy EXCEPT !.phase = "answered",
                                   !.cause = "rejected " \o c],
                     CatchStatus(c))
  /\ UNCHANGED <<variant, notice, ai, hook, storeFails, optimizedContent, generating, mounted,
                 resumeData, jobDescriptionData, currentView, history,
                 loading, error, success, analysisResult, store, pending,
                 now, appended, thrown, budget>>

InitProxy == Init /\ variant = "dj"

NextProxy == proxy_handler \/ proxy_fetchResolved \/ proxy_fetchRejected

SpecProxy == InitProxy /\ [][NextProxy]_vars

\* ---------------------------------------------------------------- C25
\* a POST request was answered
PostAnswered == proxy.phase = "answered" /\ proxy.method = "POST"

\* C25: a POST request that was answered got exactly one status; the status
\* is 400, without a call of the remote service, when a field is missing;
\* 429 when the remote service answered 429; 401 or 500 when the key is
\* missing or the remote service answered 401; 502, 503 or 504 when the
\* fetch failed.
C25_StatusTaxonomy ==
  PostAnswered =>
    /\ Len(proxy.statuses) = 1
    /\ proxy.body # "both" => proxy.statuses[1] = 400 /\ ~proxy.called
    /\ proxy.cause = "429" => proxy.statuses[1] = 429
    /\ (proxy.body = "both" /\ ~proxy.apiKey) \/ proxy.cause = "401"
         => proxy.statuses[1] \in {401, 500}
    /\ proxy.cause \in {"rejected " \o c : c \in FetchErrorCodes}
         => proxy.statuses[1] \in {502, 503, 504}

\* ============================================ usePersistentHistory, part_005
\* The Analysis view of part_005 under a fixed result prop (analysisResult).
\* history is the state of usePersistentHistory, appended the entries its
\* append effect has added, hook.seen the identity of the object the append
\* effect last ran with (0: none).
\* the entry the append effect builds from the object it is given
hookEntry(data) ==
  [ts |-> now, score |-> p005_computeATSScore(data),
   matched |-> Len(data.matchedKeywords),
   missing |-> Len(data.missingKeywords)]

\* the results the Dashboard can hand to the view
HookResults ==
  {mockAnalysisEngine(p[1], p[2]) : p \in ScorePairs}
    \cup {p004_score(p[1], p[2]) : p \in ScorePairs}

\* a history an earlier session of the view left in the store
SavedScores == <<[ts |-> 0 - 1, score |-> Num(50), matched |-> 1, missing |-> 1]>>

\* one render of Analysis and the effects of its commit.  Every render
\* builds the argument of usePersistentHistory anew:
\* { ...result, score: computedScore } is an object no earlier render has
\* seen.  The append effect runs on the first render and whenever its
\* dependency is not the object it last saw; the save effect writes the
\* history of the render.
p005_Render ==
  /\ variant = "p005"
  /\ ~mounted \/ hook.stale
  /\ hook.renders < MaxRenders
  /\ mounted' = TRUE
  /\ LET raw == store[persistKey]
         h == IF mounted THEN history
              ELSE IF Readable(raw) THEN Parse(raw) ELSE <<>>
         arg == IF analysisResult = Null THEN 0 ELSE hook.renders + 1
         fires == (~mounted \/ arg # hook.seen) /\ analysisResult # Null
     IN /\ history' = IF fires
                      THEN Slice(<<hookEntry(analysisResult)>> \o h, 10)
                      ELSE h
        /\ appended' = IF fires
                       THEN <<hookEntry(analysisResult)>> \o appended
                       ELSE appended
        /\ store' = setItem(store, persistKey, Stringify(h))
        /\ hook' = [renders |-> hook.renders + 1, seen |-> arg,
                    stale |-> fires]
  /\ UNCHANGED <<variant, notice, ai, storeFails, optimizedContent, generating,
                 resumeData, jobDescriptionData, currentView, loading,
                 error, success, analysisResult, pending, now, thrown,
                 budget, proxy>>

\* the view about to mount with a result, or with none, over a store whose
\* history key is missing, valid or unparseable
InitHook ==
  /\ variant = "p005"
  /\ mounted = FALSE
  /\ resumeData = Null /\ jobDescriptionData = Null
  /\ currentView = "analysis"
  /\ history = <<>> /\ appended = <<>>
  /\ loading = FALSE /\ error = NoMsg /\ success = NoMsg
  /\ now = 0
  /\ analysisResult \in HookResults \cup {Null}
  /\ \E saved \in {Absent, Stringify(SavedScores), Corrupt} :
       store = [k \in Keys |-> IF k = persistKey THEN saved ELSE Absent]
  /\ pending = EmptyBag /\ thrown = FALSE /\ budget = 0
  /\ storeFails = FALSE
  /\ notice = NoticeIdle
  /\ ai = AiIdle
  /\ optimizedContent = <<>> /\ generating = FALSE
  /\ proxy = ProxyIdle
  /\ hook = HookFresh

NextHook == p005_Render

SpecHook == InitHook /\ [][NextHook]_vars

\* ---------------------------------------------------------------- C26
\* C26: under a fixed result the append effect adds one entry at most, and
\* a render that follows the history update of usePersistentHistory changes
\* nothing.
C26_OneEntryThenSettled ==
  /\ Len(appended) <= 1
  /\ hook.renders >= 2 => ~hook.stale

\* ---------------------------------------------------------------- C27
\* the store holds a valid history, resume and job description
AllStoredValid ==
  /\ Readable(store[STORAGE_KEYS.history])
  /\ Readable(store[STORAGE_KEYS.resume])
  /\ Readable(store[STORAGE_KEYS.jd])

\* C27: a mount of part_003, part_004 or Dashboard.jsx over a store holding
\* a valid history, resume and job description ends, once the restore and
\* the save effects have run, with the in-memory values equal to the stored
\* ones and the store holding what it held.
C27_RestoreRoundTrip ==
  [][MountStep /\ variant \in {"p003", "p004", "dj"} /\ AllStoredValid =>
       /\ history' = Parse(store[STORAGE_KEYS.history])
       /\ resumeData' = Parse(store[STORAGE_KEYS.resume])
       /\ jobDescriptionData' = Parse(store[STORAGE_KEYS.jd])
       /\ store' = store]_vars

\* ---------------------------------------------------------------- C28
\* C28: while a file read or an analysis is in flight, loading is true.
C28_LoadingWhileInFlight == pending # EmptyBag => loading = TRUE

\* ======================================================== utils/aiService.js
\* Calls of optimizeResume and generateCoverLetter, one after the other.
\* ai.outcome tells whether the promise of the call at hand resolved or
\* rejected, ai.success / ai.error / ai.payload are the fields of the object
\* it resolved to (payload: suggestions or coverLetter), ai.log the success
\* flags of the calls before it.
AiFunctions == {"optimizeResume", "generateCoverLetter"}
\* a string argument: missing (empty) or given
AiTexts == {"", "given"}

\* what the remote service answers: 200 with a JSON body (an array whose
\* first element has a generated text, an empty text or none; an object; null;
\* text that is not JSON), or an error status with a body that is an object
\* with an error field, not JSON, or null
AiAnswers ==
  {"200 text", "200 empty text", "200 empty array", "200 object",
   "200 null", "200 malformed",
   "error object", "error malformed", "error null"}

\* variant of ai_validText that accepts an empty generated text
ai_validText_acceptsEmpty(answer) == answer \in {"200 text", "200 empty text"}

\* data && data[0] && data[0].generated_text
ai_validText(answer) == answer = "200 text"

\* data[0].generated_text
ai_generatedText(answer) == IF answer = "200 text" THEN "generated" ELSE ""

\* the message of the error thrown for an answer without usable text
ai_errorMessage(answer) ==
  IF answer \in {"error object", "error malformed"}
  THEN "HuggingFace API error"
  \* errorData is null: errorData.error throws a TypeError
  ELSE IF answer = "error null" THEN "Cannot read properties of null"
  \* response.json() rejects with a SyntaxError
  ELSE IF answer = "200 malformed" THEN "Unexpected token"
  ELSE "Invalid response from HuggingFace API"

\* the catch block: { success: false, error: error.message, payload: null }
ai_failed(a, message) ==
  [a EXCEPT !.phase = "settled", !.outcome = "resolved", !.success = FALSE,
            !.error = message, !.payload = NoMsg]

\* a call up to its return or to the awaited fetch
ai_call ==
  /\ ai.phase # "fetching"
  /\ Len(ai.log) + (IF ai.phase = "settled" THEN 1 ELSE 0) < MaxRequests
  /\ \E f \in AiFunctions, r \in AiTexts, j \in AiTexts, c \in AiTexts,
        k \in AiTexts :
       LET a == [AiIdle EXCEPT
                   !.fn = f, !.resumeText = r, !.jobDescription = j,
                   !.companyName = IF f = "generateCoverLetter" THEN c ELSE "",
                   !.apiKey = k,
                   !.log = IF ai.phase = "settled"
                           THEN Append(ai.log, ai.success) ELSE ai.log]
       IN /\ f = "optimizeResume" => c = ""
          /\ ai' =
               IF r = "" \/ j = "" \/ (f = "generateCoverLetter" /\ c = "")
               THEN ai_failed(a, IF f = "optimizeResume"
                                 THEN "Resume text and job description are required"
                                 ELSE "Resume text, job description, and company name are required")
               ELSE IF k = ""
               THEN ai_failed(a, "HuggingFace API key is required")
               ELSE [a EXCEPT !.phase = "fetching", !.called = TRUE]
  /\ UNCHANGED <<variant, notice, storeFails, optimizedContent, generating, mounted,
                 resumeData, jobDescriptionData, currentView, history,
                 loading, error, success, analysisResult, store, pending,
                 now, appended, thrown, budget, proxy, hook>>

\* the fetch resolved
ai_fetchResolved ==
  /\ ai.phase = "fetching"
  /\ \E answer \in AiAnswers :
       LET a == [ai EXCEPT !.cause = answer]
       IN ai' =
            IF ai_validText(answer)
            THEN [a EXCEPT !.phase = "settled", !.outcome = "resolved",
                           !.success = TRUE, !.error = NoMsg,
                           !.payload = ai_generatedText(answer)]
            ELSE ai_failed(a, ai_errorMessage(answer))
  /\ UNCHANGED <<variant, notice, storeFails, optimizedContent, generating, mounted,
                 resumeData, jobDescriptionData, currentView, history,
                 loading, error, success, analysisResult, store, pending,
                 now, appended, thrown, budget, proxy, hook>>

\* the fetch rejected (network error): a TypeError with a message
ai_fetchRejected ==
  /\ ai.phase = "fetching"
  /\ ai' = ai_failed([ai EXCEPT !.cause = "network"], "Failed to fetch")
  /\ UNCHANGED <<variant, notice, storeFails, optimizedContent, generating, mounted,
                 resumeData, jobDescriptionData, currentView, history,
                 loading, error, success, analysisResult, store, pending,
                 now, appended, thrown, budget, proxy, hook>>

InitAi == Init /\ variant = "dj"

NextAi == ai_call \/ ai_fetchResolved \/ ai_fetchRejected

SpecAi == InitAi /\ [][NextAi]_vars

\* ---------------------------------------------------------------- C29
\* a call that lacks a resume, a job description, a company name
\* (generateCoverLetter) or the key
AiInputMissing ==
  \/ ai.resumeText = "" \/ ai.jobDescription = "" \/ ai.apiKey = ""
  \/ ai.fn = "generateCoverLetter" /\ ai.companyName = ""

\* C29: a call that has returned resolved; with an input missing the remote
\* service was not called; with an input missing or any answer other than a
\* generated text the object has success false, an error message that is
\* not empty and a null payload; success true comes with a text that is not
\* empty.
C29_NeverRejects ==
  ai.phase = "settled" =>
    /\ ai.outcome = "resolved"
    /\ AiInputMissing => ~ai.called
    /\ AiInputMissing \/ ai.cause # "200 text" =>
         /\ ai.success = FALSE
         /\ ai.error \notin {"", NoMsg}
         /\ ai.payload = NoMsg
    /\ ai.success => ai.payload \notin {"", NoMsg}

\* C29 witness: a cover letter call with every input, answered with an
\* empty generated text, has resolved to a failure
C29_Witness ==
  /\ ai.phase = "settled" /\ ai.fn = "generateCoverLetter"
  /\ ~AiInputMissing /\ ai.called
  /\ ai.cause = "200 empty text" /\ ai.success = FALSE

\* ---------------------------------------------------------------- C30
\* C30: in Dashboard.jsx a notice is shown exactly while the timer of the
\* feedback effect runs, the timer that fires clears both notices, and it
\* is the timer started by the notice set last: no notice is cleared by the
\* timer of an earlier one.
C30_NoticeDismissedOnTime ==
  [][variant = "dj" =>
       /\ notice'.timer <=> (error' # NoMsg \/ success' # NoMsg)
       /\ dj_noticeTimeout =>
            /\ error' = NoMsg /\ success' = NoMsg
            /\ notice.fresh]_vars

====
